---- MODULE Spec2Model ----
(***************************************************************************)
(* Turn-advancement protocol of the role-based discussion generator.       *)
(*                                                                         *)
(* The browser client (src/unnamed/part_004) holds the transcript and the  *)
(* cursor and issues one step request per utterance; the server side       *)
(* (Turn Sequencer, Document Store, Model Gateway) is not part of the      *)
(* sources and is modelled from the specification, sections 4.1, 5 and 6.  *)
(***************************************************************************)
EXTENDS Integers, Sequences, FiniteSets, TLC

VARIABLES
    runs,               \* one record per started fetch chain (closure state)
    currentDiscussion,  \* part_004:70, a reference to a run's array or a value
    dom,                \* children of discussionContainer, in document order
    btn,                \* the `disabled` flag of each button
    loading,            \* loadingIndicator is shown
    errorShown,         \* errorDisplay: "none" or the message shown
    modal,              \* the Bootstrap modal that is open, or "none"
    store,              \* Document Store: session key -> document or NoDoc
    upload,             \* the document upload in progress (handleDocumentUpload);
                        \* "orphaned" when the page was reloaded under it
    clears,             \* /clear-document requests of clearUploadedDocument: those
                        \* sent, those served and not yet handled, and those
                        \* in flight whose page was reloaded
    uploadedDocument,   \* sessionStorage holds the item 'uploadedDocument'
    docOps,             \* number of document uploads and clears started so far
    docView,            \* the document panel: the file the last submit read from
                        \* documentFile, the text of documentName, and the
                        \* message of documentUploadError or "none"
    form,               \* the role inputs of discussionForm
    artifacts,          \* summary and action-item requests, and their cards
    topicInput,         \* the text of the topic field of discussionForm
    discussionTopicHeader   \* textContent of the header of the discussion card

vars == <<runs, currentDiscussion, dom, btn, loading, errorShown, modal, store,
          upload, clears, uploadedDocument, docOps, docView, form, artifacts,
          topicInput, discussionTopicHeader>>

page == <<currentDiscussion, dom, btn, loading, errorShown, modal,
          discussionTopicHeader>>
documents == <<store, upload, clears, uploadedDocument, docOps, docView>>

-----------------------------------------------------------------------------
(* Program constants *)

MinRoles == 2
MaxRoles == 6
MinTurns == 1
MaxNumTurns == 10
MaxAdditionalTurns == 5
MaxFileSize == 5242880                                \* 5 * 1024 * 1024
AllowedExtensions == {"pdf", "txt", "docx", "xlsx"}

(* Bounds of the model *)

MaxRuns == 2        \* fetch chains started in one behaviour
MaxT == 2           \* largest turn count entered in the interleaving model
MaxR == 3           \* largest roster entered in the interleaving model
MaxDocOps == 2      \* uploads and clears in one behaviour
MaxInits == 2       \* initialization replies counted per continuation run
MaxLen == 3         \* utterances displayed after the first round of a discussion
MaxEdits == 4       \* changes made to the role inputs before a submit
MaxArtifacts == 2   \* summary and action-item requests in one behaviour

-----------------------------------------------------------------------------
(* Values *)

RoleNames == <<"r1", "r2", "r3", "r4", "r5", "r6">>
Roster(n) == SubSeq(RoleNames, 1, n)

SystemRole == "system"
ConsultantRole == "consultant"

Texts == {"text"}
Instructions == {"instr"}
NoDoc == "NoDoc"
Docs == {"docA", "docB"}

\* a file of the file input: its name, split at the dots, and its size in bytes
NoFile == [name |-> <<>>, size |-> 0]
File(doc) == [name |-> <<doc, "pdf">>, size |-> 1]

\* the panel as served: documentName reads 'ファイルアップロード待ち'
InitialDocView == [file |-> NoFile, name |-> NoDoc, error |-> "none"]
Sessions == {"own", "other"}
Session == "own"

GatewayErrors == {"ModelAuthError", "ModelQuotaExceeded", "ModelTransient", "ModelOther"}

Cursor(t, i) == [turn |-> t, idx |-> i]
StartCursor == Cursor(0, 0)
NullCursor == Cursor(-1, -1)

Utterance(role, content) == [role |-> role, content |-> content]

\* the number parseInt gives for a field that holds no integer
NaN == -1000

NoReq == [roles |-> <<>>, disc |-> <<>>, cursor |-> NullCursor, useDoc |-> FALSE]
NoResp == [type |-> "none", message |-> Utterance("", ""), next |-> NullCursor,
           complete |-> FALSE, err |-> "none", gw |-> FALSE, doc |-> NoDoc,
           discussion |-> <<>>]

-----------------------------------------------------------------------------
(* Turn Sequencer, server side *)

\* step 6 of produceNextUtterance
NextCursor(c, roleCount) ==
    IF c.idx + 1 < roleCount
    THEN Cursor(c.turn, c.idx + 1)
    ELSE Cursor(c.turn + 1, 0)

\* step 7 of produceNextUtterance
IsComplete(next, totalTurns) == next.turn >= totalTurns

\* preconditions of produceNextUtterance
ValidRequest(kind, roles, turns, c) ==
    /\ Len(roles) >= MinRoles
    /\ turns # NaN
    /\ turns >= MinTurns
    /\ turns <= (IF kind = "cont" THEN MaxAdditionalTurns ELSE MaxNumTurns)
    /\ c.turn >= 0
    /\ c.idx >= 0
    /\ c.idx < Len(roles)

ErrorReply(e, gw) == [NoResp EXCEPT !.type = "error", !.err = e, !.gw = gw]

\* the cursor-initialization reply of the continuation protocol
InitReply(c) == [NoResp EXCEPT !.type = "init", !.next = c]

StepReply(roles, turns, c, text, doc) ==
    LET next == NextCursor(c, Len(roles))
        done == IsComplete(next, turns)
    IN  [NoResp EXCEPT !.type = "ok",
                       !.message = Utterance(roles[c.idx + 1], text),
                       !.next = IF done THEN NullCursor ELSE next,
                       !.complete = done,
                       !.gw = TRUE,
                       !.doc = doc]

IsInitialization(kind, disc, c) ==
    kind = "cont" /\ c = StartCursor /\ Len(disc) > 0

\* every reply produceNextUtterance can give to one request
produceNextUtterance(kind, roles, turns, useDoc, disc, c, doc) ==
    IF ~ValidRequest(kind, roles, turns, c)
    THEN {ErrorReply("InvalidInput", FALSE)}
    ELSE IF useDoc /\ doc = NoDoc
    THEN {ErrorReply("DocumentUnavailable", FALSE)}
    ELSE IF IsInitialization(kind, disc, c)
    THEN {InitReply(c)}
    ELSE {ErrorReply(e, TRUE) : e \in GatewayErrors}
         \cup {StepReply(roles, turns, c, text, IF useDoc THEN doc ELSE NoDoc) :
                 text \in Texts}

-----------------------------------------------------------------------------
(* Client helpers *)

Bubble(m) == [cls |-> "discussion-bubble", role |-> m.role, content |-> m.content]
SystemMessage(m) == [cls |-> "system-message", role |-> m.role, content |-> m.content]
ConsultantMessage(m) == [cls |-> "consultant-message", role |-> m.role, content |-> m.content]
ContinuationMarker == [cls |-> "continuation-marker", role |-> "", content |-> ""]
DocumentCard(doc) == [cls |-> "document-display", role |-> "", content |-> doc]

appendMessage(d, m) == Append(d, Bubble(m))

\* Texts of the topic field and of the header are sequences of pieces: the
\* prefix 'ディスカッション: ', the suffix ' (文書参照)', or a text that contains
\* neither
Prefix == "prefix"
Suffix == "suffix"
InitialHeader == <<"heading">>
PlainTopic == <<"topic">>

\* String.prototype.replace with a string pattern: the first occurrence is
\* removed
RECURSIVE replaceFirst(_, _)
replaceFirst(text, piece) ==
    IF text = <<>> THEN <<>>
    ELSE IF Head(text) = piece THEN Tail(text)
    ELSE <<Head(text)>> \o replaceFirst(Tail(text), piece)

endsWith(text, piece) == text # <<>> /\ text[Len(text)] = piece

\* discussionTopicHeader.textContent = topic, = `${topic} (文書参照)`
headerOfRun(topic, useDocument) ==
    IF useDocument THEN Append(topic, Suffix) ELSE topic

\* discussionTopicHeader.textContent = `ディスカッション: ${topic}`, with
\* ' (文書参照)' appended for a request that uses the document
headerOfFollowUp(topic, useDocument) ==
    <<Prefix>> \o (IF useDocument THEN Append(topic, Suffix) ELSE topic)

\* the topic summarizeDiscussion reads from the header
topicOfSummary(text) == replaceFirst(text, Prefix)

\* the topic handleContinueDiscussion and handleProvideGuidance read from the
\* header
topicOfFollowUp(text) ==
    LET topic == replaceFirst(text, Prefix)
    IN  IF endsWith(topic, Suffix) THEN replaceFirst(topic, Suffix) ELSE topic

SelectCls(d, cls) == SelectSeq(d, LAMBDA e : e.cls = cls)

\* the utterances a handler collects from the page: the consultant messages
\* first, then the discussion bubbles
collectDiscussionData(d) ==
    LET consultants == SelectCls(d, "consultant-message")
        bubbles == SelectCls(d, "discussion-bubble")
    IN  [k \in 1..Len(consultants) |-> Utterance(ConsultantRole, consultants[k].content)]
        \o [k \in 1..Len(bubbles) |-> Utterance(bubbles[k].role, bubbles[k].content)]

RECURSIVE Distinct(_)
Distinct(seq) ==
    IF seq = <<>>
    THEN <<>>
    ELSE LET init == Distinct(SubSeq(seq, 1, Len(seq) - 1))
             last == seq[Len(seq)]
         IN  IF \E k \in 1..Len(init) : init[k] = last THEN init ELSE Append(init, last)

\* Array.from(new Set(discussionData.map(item => item.role)))
extractRoles(disc) == Distinct([k \in 1..Len(disc) |-> disc[k].role])

showLoading(b, isLoading, d) ==
    IF isLoading
    THEN [b EXCEPT !.generateBtn = TRUE,
                   !.generateWithDocBtn = TRUE,
                   !.generateActionItemsBtn = TRUE]
    ELSE [b EXCEPT !.generateBtn = FALSE,
                   !.generateWithDocBtn = TRUE,
                   !.generateActionItemsBtn = (Len(d) = 0)]

\* actionItemsContainer and summaryContainer as served: both hidden and empty
InitialArtifacts ==
    [reqs |-> <<>>, shown |-> "none", summaryContent |-> "", actionItemsContent |-> ""]

\* actionItemsContainer.classList.add('d-none'); summaryContainer.classList.add('d-none')
hideContainers(a) == [a EXCEPT !.shown = "none"]

disableDiscussionButtons(b) ==
    [b EXCEPT !.generateActionItemsBtn = TRUE,
              !.summarizeDiscussionBtn = TRUE,
              !.continueDiscussionBtn = TRUE,
              !.provideGuidanceBtn = TRUE]

enableDiscussionButtons(b) ==
    [b EXCEPT !.generateActionItemsBtn = FALSE,
              !.summarizeDiscussionBtn = FALSE,
              !.continueDiscussionBtn = FALSE,
              !.provideGuidanceBtn = FALSE]

NewRun(kind, roles, turns, useDoc) ==
    [kind |-> kind, pc |-> "req", roles |-> roles, turns |-> turns,
     useDoc |-> useDoc, cursor |-> StartCursor, disc |-> <<>>,
     req |-> NoReq, resp |-> NoResp, sent |-> <<>>, inits |-> 0,
     card |-> "none", instruction |-> "", topic |-> <<>>]

\* a < b and a > b on the numbers of the page: false when a is NaN
lessThan(a, b) == a # NaN /\ a < b

greaterThan(a, b) == a # NaN /\ a > b

\* if (roles.length < 2)
tooFewRolesIgnored(roles) == FALSE

tooFewRoles(roles) == Len(roles) < MinRoles

\* if (numTurns < 1 || numTurns > 10), if (additionalTurns < 1 || additionalTurns > 5)
turnsOutOfRange(n, max) == lessThan(n, MinTurns) \/ greaterThan(n, max)

\* the validation of handleFormSubmit and handleGenerateWithDocument: the error
\* it shows, or "none"
validateForm(roles, numTurns) ==
    IF tooFewRoles(roles) THEN "InvalidInput: roles"
    ELSE IF turnsOutOfRange(numTurns, MaxNumTurns) THEN "InvalidInput: turns"
    ELSE "none"

\* roles: roles of requestData
requestRolesRederived(run) ==
    IF run.disc = <<>> THEN run.roles ELSE extractRoles(run.disc)

requestRoles(run) == run.roles

\* use_document: useDocument of requestData
useDocumentFlagDropped(run) == FALSE

useDocumentFlag(run) == run.useDoc

\* fetch(...) with body JSON.stringify(requestData): the request carries the
\* transcript, the cursor and the grounding flag as they are when it is sent
Send(run, c) ==
    [run EXCEPT !.pc = "req",
                !.cursor = c,
                !.req = [roles |-> requestRoles(run), disc |-> run.disc,
                         cursor |-> c, useDoc |-> useDocumentFlag(run)],
                !.sent = Append(run.sent, c)]

\* the request re-issued at once after a reply without a message: the same
\* requestData with the cursor of the reply (counted, at most up to MaxInits)
ResendPushing(run, c) ==
    [run EXCEPT !.pc = "req",
                !.cursor = c,
                !.disc = Append(@, run.resp.message),
                !.req = [roles |-> requestRoles(run),
                         disc |-> Append(run.disc, run.resp.message),
                         cursor |-> c, useDoc |-> useDocumentFlag(run)],
                !.inits = IF @ < MaxInits THEN @ + 1 ELSE @]

Resend(run, c) ==
    [run EXCEPT !.pc = "req",
                !.cursor = c,
                !.req = [roles |-> requestRoles(run), disc |-> run.disc,
                         cursor |-> c, useDoc |-> useDocumentFlag(run)],
                !.inits = IF @ < MaxInits THEN @ + 1 ELSE @]

\* discussion.push(newMessage), currentDiscussionData.push(data.message)
pushMessageTwice(disc, resp) == Append(Append(disc, resp.message), resp.message)

pushMessageFront(disc, resp) == <<resp.message>> \o disc

pushMessage(disc, resp) == Append(disc, resp.message)

\* the cursor of the next request: data.next_turn, data.next_role_index
nextArgumentsStale(run, resp) == run.cursor

nextArguments(run, resp) == resp.next

\* if (data.is_complete) ... else setTimeout(...)
stopsOnAlways(resp) == TRUE

stopsOnNever(resp) == FALSE

stopsOn(resp) == resp.complete

\* the text handed to showError for a reply that is an error: data.error of the
\* reply, or the message of the Error thrown for it
errorMessageGeneric(resp) == "ServerError"

errorMessage(resp) == resp.err

\* a step that failed: showLoading(false); showError(...); return
failedStepAdvancing(run) ==
    [run EXCEPT !.pc = "failed",
                !.disc = Append(@, run.resp.message),
                !.cursor = Cursor(@.turn, @.idx + 1)]

failedStepRetrying(run) == Send(run, run.cursor)

failedStep(run) == [run EXCEPT !.pc = "failed"]

RunIds == 1..Len(runs)

-----------------------------------------------------------------------------
(* Fresh generation *)

\* the checks of the submit handler on the roles and the turn count read from
\* the form, then generateDiscussion and the first generateNextTurn
generateDiscussion(roles, numTurns) ==
    /\ modal = "none"
    /\ ~btn.generateBtn
    /\ IF validateForm(roles, numTurns) # "none"
       THEN /\ errorShown' = validateForm(roles, numTurns)
            /\ UNCHANGED <<runs, currentDiscussion, dom, btn, loading, artifacts,
                           discussionTopicHeader>>
       ELSE /\ runs' = Append(runs, Send([NewRun("fresh", roles, numTurns, FALSE)
                                            EXCEPT !.topic = topicInput],
                                         StartCursor))
            /\ discussionTopicHeader' = headerOfRun(topicInput, FALSE)
            /\ artifacts' = hideContainers(artifacts)
            /\ currentDiscussion' = [kind |-> "ref", run |-> Len(runs) + 1, val |-> <<>>]
            /\ dom' = <<>>
            /\ btn' = disableDiscussionButtons(showLoading(btn, TRUE, dom))
            /\ loading' = TRUE
            /\ errorShown' = "none"
    /\ UNCHANGED <<modal, documents, form, topicInput>>

\* the step endpoints (/generate-next-turn, /continue-discussion) answer the
\* request in flight
ServeStep(r) ==
    /\ runs[r].pc = "req"
    /\ runs[r].kind \in {"fresh", "doc", "cont"}
    /\ \E reply \in produceNextUtterance(runs[r].kind, runs[r].req.roles, runs[r].turns,
                                         runs[r].req.useDoc, runs[r].req.disc,
                                         runs[r].req.cursor, store[Session]) :
          runs' = [runs EXCEPT ![r].pc = "resp", ![r].resp = reply]
    /\ UNCHANGED <<page, documents, form, artifacts, topicInput>>

\* the fetch is rejected, or the reply is not a 2xx JSON reply
NetworkFailure(r) ==
    /\ runs[r].pc \in {"req", "verify", "check"}
    /\ runs' = [runs EXCEPT ![r].pc = CASE runs[r].pc = "req" -> "resp"
                                        [] runs[r].pc = "verify" -> "verified"
                                        [] OTHER -> "checked",
                            ![r].resp = [NoResp EXCEPT !.type = "net",
                                                       !.err = "NetworkError"]]
    /\ UNCHANGED <<page, documents, form, artifacts, topicInput>>

\* the .then(data => ...) and .catch handlers of generateNextTurn and
\* generateNextTurnWithDocument
generateNextTurnReply(r) ==
    LET run == runs[r]
        resp == run.resp
    IN  /\ run.pc = "resp"
        /\ run.kind \in {"fresh", "doc"}
        /\ IF resp.type # "ok"
           THEN /\ runs' = [runs EXCEPT ![r] = failedStep(run)]
                /\ btn' = showLoading(btn, FALSE, dom)
                /\ loading' = FALSE
                /\ errorShown' = errorMessage(resp)
                /\ UNCHANGED <<currentDiscussion, dom>>
           ELSE LET d == appendMessage(dom, resp.message)
                IN  /\ dom' = d
                    /\ IF stopsOn(resp)
                       THEN /\ runs' = [runs EXCEPT ![r].pc = "done",
                                                    ![r].disc = pushMessage(@, resp)]
                            /\ btn' = enableDiscussionButtons(showLoading(btn, FALSE, d))
                            /\ loading' = FALSE
                            /\ currentDiscussion' = [kind |-> "ref", run |-> r, val |-> <<>>]
                       ELSE /\ runs' = [runs EXCEPT ![r].pc = "wait",
                                                    ![r].disc = pushMessage(@, resp),
                                                    ![r].cursor = nextArguments(run, resp)]
                            /\ UNCHANGED <<btn, loading, currentDiscussion>>
                    /\ UNCHANGED errorShown
        /\ UNCHANGED <<modal, documents, form, artifacts, topicInput, discussionTopicHeader>>

\* the setTimeout callback: the next generateNextTurn, generateNextTurnWithDocument
\* or fetchNextContinuationTurn call
nextTurnTimer(r) ==
    /\ runs[r].pc = "wait"
    /\ runs' = [runs EXCEPT ![r] = Send(@, runs[r].cursor)]
    /\ UNCHANGED <<page, documents, form, artifacts, topicInput>>

-----------------------------------------------------------------------------
(* Grounded fresh generation *)

\* click on generateWithDocBtn: validation, then GET /get-document-text
handleGenerateWithDocument(roles, numTurns) ==
    /\ modal = "none"
    /\ ~btn.generateWithDocBtn
    /\ IF validateForm(roles, numTurns) # "none"
       THEN /\ errorShown' = validateForm(roles, numTurns)
            /\ UNCHANGED runs
       ELSE /\ runs' = Append(runs, [NewRun("doc", roles, numTurns, TRUE)
                                        EXCEPT !.pc = "verify",
                                               !.topic = topicInput])
            /\ UNCHANGED errorShown
    /\ UNCHANGED <<currentDiscussion, dom, btn, loading, modal, documents, form, artifacts,
                   topicInput, discussionTopicHeader>>

\* /get-document-text answers
ServeDocumentText(r) ==
    /\ runs[r].pc \in {"verify", "check"}
    /\ runs' = [runs EXCEPT ![r].pc = IF runs[r].pc = "verify" THEN "verified"
                                                                ELSE "checked",
                            ![r].resp = [NoResp EXCEPT !.type = "doc",
                                                       !.doc = store[Session]]]
    /\ UNCHANGED <<page, documents, form, artifacts, topicInput>>

\* the handlers of the fetch of handleGenerateWithDocument; on success
\* generateDiscussionWithDocument starts and asks for the document again
handleGenerateWithDocumentReply(r) ==
    LET run == runs[r]
    IN  /\ run.pc = "verified"
        /\ IF run.resp.type = "net"
           THEN /\ runs' = [runs EXCEPT ![r].pc = "failed"]
                /\ errorShown' = "DocumentUnavailable"
                /\ UNCHANGED <<btn, loading>>
           ELSE IF run.resp.doc = NoDoc
           THEN /\ runs' = [runs EXCEPT ![r].pc = "failed"]
                /\ errorShown' = "DocumentUnavailable"
                /\ btn' = [btn EXCEPT !.generateWithDocBtn = TRUE]
                /\ UNCHANGED loading
           ELSE /\ runs' = [runs EXCEPT ![r].pc = "check"]
                /\ btn' = disableDiscussionButtons(showLoading(btn, TRUE, dom))
                /\ loading' = TRUE
                /\ errorShown' = "none"
        /\ UNCHANGED <<currentDiscussion, dom, modal, documents, form, artifacts,
                       topicInput, discussionTopicHeader>>

\* the handlers of the fetch of generateDiscussionWithDocument; on success the
\* first generateNextTurnWithDocument
generateDiscussionWithDocumentReply(r) ==
    LET run == runs[r]
    IN  /\ run.pc = "checked"
        /\ IF run.resp.type = "net" \/ run.resp.doc = NoDoc
           THEN /\ runs' = [runs EXCEPT ![r].pc = "failed"]
                /\ btn' = showLoading(btn, FALSE, dom)
                /\ loading' = FALSE
                /\ errorShown' = "DocumentUnavailable"
                /\ UNCHANGED <<currentDiscussion, dom, artifacts, discussionTopicHeader>>
           ELSE /\ runs' = [runs EXCEPT ![r] = [Send(run, StartCursor)
                                                  EXCEPT !.card = "pending"]]
                /\ discussionTopicHeader' = headerOfRun(run.topic, TRUE)
                /\ artifacts' = hideContainers(artifacts)
                /\ currentDiscussion' = [kind |-> "ref", run |-> r, val |-> <<>>]
                /\ dom' = <<>>
                /\ UNCHANGED <<btn, loading, errorShown>>
        /\ UNCHANGED <<modal, documents, form, topicInput>>

\* the fetch of the first generateNextTurnWithDocument that shows the document
displayDocumentCard(r) ==
    /\ runs[r].card = "pending"
    /\ runs' = [runs EXCEPT ![r].card = "none"]
    /\ dom' = IF store[Session] # NoDoc
              THEN Append(dom, DocumentCard(store[Session]))
              ELSE dom
    /\ UNCHANGED <<currentDiscussion, btn, loading, errorShown, modal, documents, form, artifacts,
                   topicInput, discussionTopicHeader>>

-----------------------------------------------------------------------------
(* Continuation *)

showContinueDiscussionModal ==
    /\ modal = "none"
    /\ ~btn.continueDiscussionBtn
    /\ IF SelectCls(dom, "discussion-bubble") = <<>>
       THEN errorShown' = "NoDiscussion" /\ UNCHANGED modal
       ELSE modal' = "continue" /\ UNCHANGED errorShown
    /\ UNCHANGED <<runs, currentDiscussion, dom, btn, loading, documents, form, artifacts,
                   topicInput, discussionTopicHeader>>

\* the modal is dismissed without starting anything
dismissModal ==
    /\ modal # "none"
    /\ modal' = "none"
    /\ UNCHANGED <<runs, currentDiscussion, dom, btn, loading, errorShown, documents, form, artifacts,
                   topicInput, discussionTopicHeader>>

\* click on startContinueDiscussion, and the first fetchNextContinuationTurn
handleContinueDiscussion(additionalTurns, useDocument) ==
    /\ modal = "continue"
    /\ modal' = "none"
    /\ IF turnsOutOfRange(additionalTurns, MaxAdditionalTurns)
       THEN /\ errorShown' = "InvalidInput: turns"
            /\ UNCHANGED <<runs, btn, loading>>
       ELSE LET discussionData == collectDiscussionData(dom)
                run == [NewRun("cont", extractRoles(discussionData), additionalTurns,
                               useDocument)
                          EXCEPT !.disc = discussionData,
                                 !.topic = topicOfFollowUp(discussionTopicHeader)]
            IN  /\ runs' = Append(runs, Send(run, StartCursor))
                /\ btn' = showLoading(btn, TRUE, dom)
                /\ loading' = TRUE
                /\ errorShown' = "none"
    /\ UNCHANGED <<currentDiscussion, dom, documents, form, artifacts,
                   topicInput, discussionTopicHeader>>

\* the .then(data => ...) and .catch handlers of fetchNextContinuationTurn
fetchNextContinuationTurnReply(r) ==
    LET run == runs[r]
        resp == run.resp
    IN  /\ run.pc = "resp"
        /\ run.kind = "cont"
        /\ CASE resp.type \in {"error", "net"} ->
                  /\ runs' = [runs EXCEPT ![r] = failedStep(run)]
                  /\ btn' = showLoading(btn, FALSE, dom)
                  /\ loading' = FALSE
                  /\ errorShown' = errorMessage(resp)
                  /\ UNCHANGED <<dom, discussionTopicHeader>>
             [] resp.type = "init" ->
                  /\ runs' = [runs EXCEPT ![r] = Resend(run, nextArguments(run, resp))]
                  /\ UNCHANGED <<dom, btn, loading, errorShown, discussionTopicHeader>>
             [] OTHER ->
                  LET d == appendMessage(dom, resp.message)
                  IN  /\ dom' = d
                      /\ discussionTopicHeader' = headerOfFollowUp(run.topic,
                                                                   run.req.useDoc)
                      /\ IF stopsOn(resp)
                         THEN /\ runs' = [runs EXCEPT ![r].pc = "done",
                                                      ![r].disc = pushMessage(@, resp)]
                              /\ btn' = enableDiscussionButtons(showLoading(btn, FALSE, d))
                              /\ loading' = FALSE
                         ELSE /\ runs' = [runs EXCEPT ![r].pc = "wait",
                                                      ![r].disc = pushMessage(@, resp),
                                                      ![r].cursor = nextArguments(run, resp)]
                              /\ UNCHANGED <<btn, loading>>
                      /\ UNCHANGED errorShown
        /\ UNCHANGED <<currentDiscussion, modal, documents, form, artifacts, topicInput>>

-----------------------------------------------------------------------------
(* Guided continuation *)

showProvideGuidanceModal ==
    /\ modal = "none"
    /\ ~btn.provideGuidanceBtn
    /\ IF SelectCls(dom, "discussion-bubble") = <<>>
       THEN errorShown' = "NoDiscussion" /\ UNCHANGED modal
       ELSE modal' = "guidance" /\ UNCHANGED errorShown
    /\ UNCHANGED <<runs, currentDiscussion, dom, btn, loading, documents, form, artifacts,
                   topicInput, discussionTopicHeader>>

\* click on startProvideGuidance: one POST /provide-guidance, raced against a
\* 60 s timer
handleProvideGuidance(instruction, numAdditionalTurns, useDocument) ==
    /\ modal = "guidance"
    /\ modal' = "none"
    /\ IF instruction = "" \/ turnsOutOfRange(numAdditionalTurns, MaxAdditionalTurns)
       THEN /\ errorShown' = IF instruction = "" THEN "InvalidInput: instruction"
                                                 ELSE "InvalidInput: turns"
            /\ UNCHANGED <<runs, btn, loading>>
       ELSE LET discussionData == collectDiscussionData(dom)
                run == [NewRun("guid", <<>>, numAdditionalTurns, useDocument)
                          EXCEPT !.disc = discussionData,
                                 !.instruction = instruction,
                                 !.topic = topicOfFollowUp(discussionTopicHeader)]
                sent == [run EXCEPT !.req = [roles |-> <<>>,
                                             disc |-> discussionData,
                                             cursor |-> NullCursor,
                                             useDoc |-> useDocumentFlag(run)]]
            IN  /\ runs' = Append(runs, sent)
                /\ btn' = showLoading(btn, TRUE, dom)
                /\ loading' = TRUE
                /\ errorShown' = "none"
    /\ UNCHANGED <<currentDiscussion, dom, documents, form, artifacts,
                   topicInput, discussionTopicHeader>>

\* the roster a guidance run uses: the transcript's distinct roles, the
\* pseudo-roles left out
rosterOf(disc) ==
    SelectSeq(extractRoles(disc), LAMBDA x : x \notin {SystemRole, ConsultantRole})

\* the utterances of a whole window of R x additionalTurns steps
windowUtterances(roles, turns, texts) ==
    [k \in 1..(Len(roles) * turns) |->
        Utterance(roles[((k - 1) % Len(roles)) + 1], texts[k])]

\* every reply of the guidance endpoint: the directive is injected once, then
\* the window is produced step by step from cursor {0, 0}
provideGuidance(disc, instruction, turns, useDoc, doc) ==
    LET roles == rosterOf(disc)
    IN  IF ~ValidRequest("cont", roles, turns, StartCursor)
        THEN {ErrorReply("InvalidInput", FALSE)}
        ELSE IF useDoc /\ doc = NoDoc
        THEN {ErrorReply("DocumentUnavailable", FALSE)}
        ELSE {ErrorReply(e, TRUE) : e \in GatewayErrors}
             \cup {[NoResp EXCEPT !.type = "ok",
                                  !.complete = TRUE,
                                  !.gw = TRUE,
                                  !.doc = IF useDoc THEN doc ELSE NoDoc,
                                  !.discussion =
                                      Append(disc, Utterance(SystemRole, instruction))
                                      \o windowUtterances(roles, turns, texts)] :
                     texts \in [1..(Len(roles) * turns) -> Texts]}

\* the state of a request whose timer has won the Promise.race: the fetch goes on,
\* and what it settles to is left unobserved
raceLostStillAwaited(pc) == pc

raceLost(pc) == IF pc = "req" THEN "timedout" ELSE "late"

\* the guidance endpoint answers; after the timer has fired the reply is late
ServeGuidance(r) ==
    /\ runs[r].pc \in {"req", "timedout"}
    /\ runs[r].kind = "guid"
    /\ \E reply \in provideGuidance(runs[r].req.disc, runs[r].instruction,
                                    runs[r].turns, runs[r].req.useDoc, store[Session]) :
          runs' = [runs EXCEPT ![r].pc = IF @ = "req" THEN "resp" ELSE "late",
                               ![r].resp = reply]
    /\ UNCHANGED <<page, documents, form, artifacts, topicInput>>

\* the timer of the Promise.race fires before the reply is handled
guidanceTimeout(r) ==
    /\ runs[r].kind = "guid"
    /\ runs[r].pc \in {"req", "resp"}
    /\ runs' = [runs EXCEPT ![r].pc = raceLost(@)]
    /\ btn' = showLoading(btn, FALSE, dom)
    /\ loading' = FALSE
    /\ errorShown' = "Timeout"
    /\ UNCHANGED <<currentDiscussion, dom, modal, documents, form, artifacts,
                   topicInput, discussionTopicHeader>>

\* the fetch settles after the race was lost: no handler is attached to it
guidanceLateReply(r) ==
    /\ runs[r].kind = "guid"
    /\ runs[r].pc = "late"
    /\ runs' = [runs EXCEPT ![r].pc = "dropped"]
    /\ UNCHANGED <<page, documents, form, artifacts, topicInput>>

\* displayDiscussion(discussion, topic, true)
displayContinuation(d, discussion) ==
    LET bubbles == Len(SelectCls(d, "discussion-bubble"))
        marked == IF bubbles > 0 THEN Append(d, ContinuationMarker) ELSE d
        fresh == SubSeq(discussion, bubbles + 1, Len(discussion))
    IN  marked \o [k \in 1..Len(fresh) |->
                     CASE fresh[k].role = SystemRole -> SystemMessage(fresh[k])
                       [] fresh[k].role = ConsultantRole -> ConsultantMessage(fresh[k])
                       [] OTHER -> Bubble(fresh[k])]

\* currentDiscussion = data.discussion
adoptDiscussionKeeping(cur, resp) == cur

adoptDiscussion(cur, resp) == [kind |-> "val", run |-> 0, val |-> resp.discussion]

\* the .then(data => ...) and .catch handlers of handleProvideGuidance
handleProvideGuidanceReply(r) ==
    LET run == runs[r]
        resp == run.resp
    IN  /\ run.pc = "resp"
        /\ run.kind = "guid"
        /\ IF resp.type # "ok"
           THEN /\ runs' = [runs EXCEPT ![r] = failedStep(run)]
                /\ btn' = showLoading(btn, FALSE, dom)
                /\ errorShown' = errorMessage(resp)
                /\ UNCHANGED <<currentDiscussion, dom, artifacts, discussionTopicHeader>>
           ELSE /\ runs' = [runs EXCEPT ![r].pc = "done", ![r].disc = resp.discussion]
                /\ discussionTopicHeader' = headerOfFollowUp(run.topic, run.useDoc)
                /\ artifacts' = hideContainers(artifacts)
                /\ currentDiscussion' = adoptDiscussion(currentDiscussion, resp)
                /\ dom' = displayContinuation(dom, resp.discussion)
                /\ btn' = enableDiscussionButtons(showLoading(btn, FALSE, dom))
                /\ UNCHANGED errorShown
        /\ loading' = FALSE
        /\ UNCHANGED <<modal, documents, form, topicInput>>

-----------------------------------------------------------------------------
(* The role inputs of the form *)

\* what an input added by a click on addRoleBtn shows: addRoleInput is the click
\* listener itself, so its roleText is the click event, written out by String()
EventText == "[object PointerEvent]"

\* data-topic of an example topic: a text without prefix or suffix
ExampleTopic == PlainTopic

\* the theme of a roles file, when it has one: a text without prefix or suffix
ImportedTopic == PlainTopic

\* data-roles of an example topic
ExampleRoles == <<"e1", "e2", "e3", "e4">>

\* the role lists of a roles file: fewer roles than inputs, and more than the
\* form takes
ImportedLists ==
    {<<"i1">>, <<"i1", "i2", "i3">>, <<"i1", "i2", "i3", "i4", "i5", "i6", "i7">>}

\* what the user types into a role input
TypedTexts == {" ", "r1", "r2"}

\* value.trim()
trim(text) == IF text = " " THEN "" ELSE text

\* the page as served: the two role groups of the markup hold no .role-input,
\* and their remove buttons are disabled
InitialForm ==
    [inputs |-> <<>>, groups |-> 2, removable |-> FALSE, timer |-> FALSE, edits |-> 0]

updateRemoveButtons(f) == [f EXCEPT !.removable = Len(f.inputs) > MinRoles]

addRoleInput(f, roleText) ==
    IF Len(f.inputs) >= MaxRoles
    THEN f
    ELSE updateRemoveButtons([f EXCEPT !.inputs = Append(@, roleText)])

Edited(f) == [f EXCEPT !.edits = @ + 1]

\* click on addRoleBtn
addRole ==
    /\ form.edits < MaxEdits
    /\ form' = Edited(addRoleInput(form, EventText))
    /\ errorShown' = IF Len(form.inputs) >= MaxRoles THEN "TooManyRoles" ELSE errorShown
    /\ UNCHANGED <<runs, currentDiscussion, dom, btn, loading, modal, documents, artifacts,
                   topicInput, discussionTopicHeader>>

\* click on the remove button of the k-th role input
removeRoleInput(k) ==
    /\ form.edits < MaxEdits
    /\ form.removable
    /\ k \in 1..Len(form.inputs)
    /\ form' = Edited(updateRemoveButtons(
                   [form EXCEPT !.inputs = SubSeq(@, 1, k - 1) \o SubSeq(@, k + 1, Len(@))]))
    /\ UNCHANGED <<runs, page, documents, artifacts, topicInput>>

\* click on an example topic
loadExampleTopic ==
    /\ form.edits < MaxEdits
    /\ form' = Edited(updateRemoveButtons(
                   [form EXCEPT !.inputs = ExampleRoles, !.groups = 0]))
    /\ topicInput' = ExampleTopic
    /\ UNCHANGED <<runs, page, documents, artifacts>>

\* click on importRolesBtn with the roles of the preview; clearExisting is the
\* checkbox clearExistingRoles
importRoles(roles, clearExisting) ==
    LET kept == IF form.groups >= MinRoles THEN 0 ELSE MinRoles - form.groups
        cleared == IF clearExisting
                   THEN [k \in 1..(IF Len(form.inputs) < kept THEN Len(form.inputs)
                                                               ELSE kept) |-> ""]
                   ELSE form.inputs
        taken == IF Len(roles) < MaxRoles THEN Len(roles) ELSE MaxRoles
        n == IF taken > Len(cleared) THEN taken ELSE Len(cleared)
        filled == [k \in 1..n |-> IF k <= Len(roles) THEN roles[k] ELSE cleared[k]]
        f == [form EXCEPT !.inputs = filled, !.timer = TRUE]
    IN  /\ form.edits < MaxEdits
        /\ roles # <<>>
        /\ form' = Edited(IF n > Len(cleared) THEN updateRemoveButtons(f) ELSE f)
        /\ errorShown' = IF Len(roles) > n THEN "TooManyRoles" ELSE errorShown
        /\ \E topic \in {<<>>, ImportedTopic} :
              topicInput' = IF topic # <<>> THEN topic ELSE topicInput
        /\ UNCHANGED <<runs, currentDiscussion, dom, btn, loading, modal, documents, artifacts,
                       discussionTopicHeader>>

\* the setTimeout callback of importRoles
importRolesTimer ==
    /\ form.timer
    /\ form' = updateRemoveButtons([form EXCEPT !.timer = FALSE])
    /\ UNCHANGED <<runs, page, documents, artifacts, topicInput>>

\* the user types into the k-th role input
typeRole(k, text) ==
    /\ form.edits < MaxEdits
    /\ k \in 1..Len(form.inputs)
    /\ form' = Edited([form EXCEPT !.inputs[k] = text])
    /\ UNCHANGED <<runs, page, documents, artifacts, topicInput>>

\* Array.from(roleInputs).map(input => input.value.trim()).filter(role => role)
formRoles(f) ==
    SelectSeq([k \in 1..Len(f.inputs) |-> trim(f.inputs[k])], LAMBDA x : x # "")

\* submit of discussionForm: every role input is a required field
handleFormSubmit(numTurns) ==
    /\ \A k \in 1..Len(form.inputs) : form.inputs[k] # ""
    /\ generateDiscussion(formRoles(form), numTurns)

-----------------------------------------------------------------------------
(* Derived artifacts: summary and action items *)

\* the artifact endpoints (/summarize-discussion, /generate-action-items): one
\* Model Gateway call, answered by the content or by a classified error
generateArtifact(kind, data) ==
    {ErrorReply(e, TRUE) : e \in GatewayErrors}
    \cup {[NoResp EXCEPT !.type = "ok", !.gw = TRUE, !.message = Utterance(kind, "markdown")]}

\* fetch(...) with body JSON.stringify({discussion_data: discussionData, ...})
NewArtifact(kind, data) ==
    [kind |-> kind, pc |-> "req", data |-> data, resp |-> NoResp, topic |-> <<>>]

showActionItemsLoading(b, isLoading) == [b EXCEPT !.generateActionItemsBtn = isLoading]

ArtifactIds == 1..Len(artifacts.reqs)

\* click on generateActionItemsBtn
generateActionItems ==
    /\ modal = "none"
    /\ ~btn.generateActionItemsBtn
    /\ Len(artifacts.reqs) < MaxArtifacts
    /\ IF SelectCls(dom, "discussion-bubble") = <<>>
       THEN /\ errorShown' = "NoDiscussion"
            /\ UNCHANGED <<btn, artifacts>>
       ELSE /\ artifacts' = [artifacts EXCEPT
                               !.reqs = Append(@, NewArtifact("actions",
                                                              collectDiscussionData(dom))),
                               !.shown = "actions",
                               !.actionItemsContent = "generating"]
            /\ btn' = showActionItemsLoading(btn, TRUE)
            /\ errorShown' = "none"
    /\ UNCHANGED <<runs, currentDiscussion, dom, loading, modal, documents, form,
                   topicInput, discussionTopicHeader>>

\* click on summarizeDiscussionBtn
summarizeDiscussion ==
    /\ modal = "none"
    /\ ~btn.summarizeDiscussionBtn
    /\ Len(artifacts.reqs) < MaxArtifacts
    /\ IF SelectCls(dom, "discussion-bubble") = <<>>
       THEN /\ errorShown' = "NoDiscussion"
            /\ UNCHANGED <<btn, loading, artifacts>>
       ELSE /\ artifacts' = [artifacts EXCEPT
                               !.reqs = Append(@,
                                   [NewArtifact("summary", collectDiscussionData(dom))
                                      EXCEPT !.topic =
                                                topicOfSummary(discussionTopicHeader)]),
                               !.shown = "summary",
                               !.summaryContent = "generating"]
            /\ btn' = showLoading(btn, TRUE, dom)
            /\ loading' = TRUE
            /\ errorShown' = "none"
    /\ UNCHANGED <<runs, currentDiscussion, dom, modal, documents, form,
                   topicInput, discussionTopicHeader>>

\* the artifact endpoint answers; after the timer has fired the reply is late
ServeArtifact(a) ==
    /\ artifacts.reqs[a].pc \in {"req", "timedout"}
    /\ \E reply \in generateArtifact(artifacts.reqs[a].kind, artifacts.reqs[a].data) :
          artifacts' = [artifacts EXCEPT
                          !.reqs[a].pc = IF @ = "req" THEN "resp" ELSE "late",
                          !.reqs[a].resp = reply]
    /\ UNCHANGED <<runs, page, documents, form, topicInput>>

\* the fetch is rejected, or the reply is not a 2xx JSON reply
ArtifactNetworkFailure(a) ==
    /\ artifacts.reqs[a].pc \in {"req", "timedout"}
    /\ artifacts' = [artifacts EXCEPT
                       !.reqs[a].pc = IF @ = "req" THEN "resp" ELSE "late",
                       !.reqs[a].resp = [NoResp EXCEPT !.type = "net",
                                                       !.err = "NetworkError"]]
    /\ UNCHANGED <<runs, page, documents, form, topicInput>>

\* what a failed request leaves of itself: nothing is sent again
failedArtifactRetrying(req, pc) == [req EXCEPT !.pc = "req"]

failedArtifact(req, pc) == [req EXCEPT !.pc = pc]

\* actionItemsContainer.classList.add('d-none'), summaryContainer.classList.add('d-none')
hideContainerKeeping(a, kind) == a

hideContainer(a, kind) ==
    [a EXCEPT !.shown = IF (kind = "actions" /\ @ = "actions")
                           \/ (kind = "summary" /\ @ = "summary")
                        THEN "none" ELSE @]

\* the buttons after showActionItemsLoading(false) or showLoading(false)
artifactLoadingOff(kind) ==
    IF kind = "actions" THEN showActionItemsLoading(btn, FALSE)
                        ELSE showLoading(btn, FALSE, dom)

\* the .then(data => ...) and .catch handlers of generateActionItems and
\* summarizeDiscussion
artifactReply(a) ==
    LET req == artifacts.reqs[a]
    IN  /\ req.pc = "resp"
        /\ btn' = artifactLoadingOff(req.kind)
        /\ loading' = IF req.kind = "summary" THEN FALSE ELSE loading
        /\ IF req.resp.type # "ok"
           THEN /\ artifacts' = hideContainer(
                                   [artifacts EXCEPT !.reqs[a] = failedArtifact(req, "failed")],
                                   req.kind)
                /\ errorShown' = errorMessage(req.resp)
           ELSE /\ artifacts' =
                     IF req.kind = "actions"
                     THEN [artifacts EXCEPT !.reqs[a].pc = "done",
                                            !.actionItemsContent = req.resp.message.content]
                     ELSE [artifacts EXCEPT !.reqs[a].pc = "done",
                                            !.summaryContent = req.resp.message.content]
                /\ UNCHANGED errorShown
        /\ UNCHANGED <<runs, currentDiscussion, dom, modal, documents, form,
                       topicInput, discussionTopicHeader>>

\* the timer of the Promise.race fires before the reply is handled
artifactTimeout(a) ==
    LET req == artifacts.reqs[a]
    IN  /\ req.pc \in {"req", "resp"}
        /\ artifacts' = hideContainer(
                           [artifacts EXCEPT
                              !.reqs[a] = failedArtifact(req, raceLost(req.pc))],
                           req.kind)
        /\ btn' = artifactLoadingOff(req.kind)
        /\ loading' = IF req.kind = "summary" THEN FALSE ELSE loading
        /\ errorShown' = "Timeout"
        /\ UNCHANGED <<runs, currentDiscussion, dom, modal, documents, form,
                       topicInput, discussionTopicHeader>>

\* the fetch settles after the race was lost: no handler is attached to it
artifactLateReply(a) ==
    /\ artifacts.reqs[a].pc = "late"
    /\ artifacts' = [artifacts EXCEPT !.reqs[a].pc = "dropped"]
    /\ UNCHANGED <<runs, page, documents, form, topicInput>>

-----------------------------------------------------------------------------
(* Document Store *)

\* String.prototype.toLowerCase on the last part of a file name
toLowerCase(text) ==
    CASE text = "PDF" -> "pdf"
      [] text = "Xlsx" -> "xlsx"
      [] OTHER -> text

\* file.name.split('.').pop().toLowerCase()
fileExt(name) == toLowerCase(name[Len(name)])

\* the checks of handleDocumentUpload, in their order
validateFile(file) ==
    CASE file = NoFile -> "NoFile"
      [] file.size > MaxFileSize -> "FileTooLarge"
      [] fileExt(file.name) \notin AllowedExtensions -> "UnsupportedType"
      [] OTHER -> "none"

\* the document a file holds
documentOf(file) == file.name[1]

\* submit of documentUploadForm: the checks of the file, then POST
\* /clear-document and, after its reply, POST /upload-document
handleDocumentUpload(file) ==
    /\ modal = "none"
    /\ upload.pc = "idle"
    /\ IF validateFile(file) # "none"
       THEN /\ docView' = [docView EXCEPT !.file = file, !.error = validateFile(file)]
            /\ UNCHANGED <<upload, uploadedDocument, docOps>>
       ELSE /\ upload' = [pc |-> "clearing", doc |-> documentOf(file)]
            /\ uploadedDocument' = FALSE
            /\ docOps' = docOps + 1
            /\ docView' = [docView EXCEPT !.file = file, !.error = "none"]
    /\ UNCHANGED <<runs, page, store, clears, form, artifacts, topicInput>>

\* /clear-document answers the upload's first request, the client sends the file
ServeUploadClear ==
    /\ upload.pc = "clearing"
    /\ store' = [store EXCEPT ![Session] = NoDoc]
    /\ upload' = [upload EXCEPT !.pc = "uploading"]
    /\ UNCHANGED <<runs, page, clears, uploadedDocument, docOps, docView, form, artifacts,
                   topicInput>>

\* /upload-document stores the extracted text, or fails to extract it
ServeUpload ==
    /\ upload.pc \in {"uploading", "orphaned"}
    /\ \/ /\ store' = [store EXCEPT ![Session] = upload.doc]
          /\ upload' = IF upload.pc = "uploading"
                       THEN [upload EXCEPT !.pc = "uploaded"]
                       ELSE [pc |-> "idle", doc |-> NoDoc]
       \/ /\ upload' = IF upload.pc = "uploading"
                       THEN [upload EXCEPT !.pc = "rejected"]
                       ELSE [pc |-> "idle", doc |-> NoDoc]
          /\ UNCHANGED store
    /\ UNCHANGED <<runs, page, clears, uploadedDocument, docOps, docView, form, artifacts,
                   topicInput>>

\* the last handlers of handleDocumentUpload
handleDocumentUploadReply ==
    /\ upload.pc \in {"uploaded", "rejected"}
    /\ IF upload.pc = "uploaded"
       THEN /\ btn' = [btn EXCEPT !.generateWithDocBtn = FALSE]
            /\ uploadedDocument' = TRUE
            /\ docView' = [docView EXCEPT !.name = upload.doc]
       ELSE /\ docView' = [docView EXCEPT !.error = "UploadFailed"]
            /\ UNCHANGED <<btn, uploadedDocument>>
    /\ upload' = [pc |-> "idle", doc |-> NoDoc]
    /\ UNCHANGED <<runs, currentDiscussion, dom, loading, errorShown, modal, store,
                   clears, docOps, form, artifacts, topicInput, discussionTopicHeader>>

\* click on clearDocument
clearUploadedDocument ==
    /\ modal = "none"
    /\ clears' = [clears EXCEPT !.sent = @ + 1]
    /\ uploadedDocument' = FALSE
    /\ docOps' = docOps + 1
    /\ UNCHANGED <<runs, page, store, upload, docView, form, artifacts, topicInput>>

InitialButtons ==
    [generateBtn |-> FALSE, generateWithDocBtn |-> TRUE,
     generateActionItemsBtn |-> TRUE, summarizeDiscussionBtn |-> TRUE,
     continueDiscussionBtn |-> TRUE, provideGuidanceBtn |-> TRUE]

NoDiscussion == [kind |-> "null", run |-> 0, val |-> <<>>]

\* a request of the document panel is rejected by the network: the upload shows
\* the error, clearUploadedDocument only logs it
DocumentNetworkFailure ==
    /\ \/ /\ upload.pc \in {"clearing", "uploading"}
          /\ upload' = [upload EXCEPT !.pc = "rejected"]
          /\ UNCHANGED clears
       \/ /\ clears.sent > 0
          /\ clears' = [clears EXCEPT !.sent = @ - 1]
          /\ UNCHANGED upload
    /\ UNCHANGED <<runs, page, store, uploadedDocument, docOps, docView, form, artifacts,
                   topicInput>>

\* /clear-document empties the session's slot
ServeClear ==
    /\ \/ /\ clears.sent > 0
          /\ clears' = [clears EXCEPT !.sent = @ - 1, !.served = @ + 1]
       \/ /\ clears.orphaned > 0
          /\ clears' = [clears EXCEPT !.orphaned = @ - 1]
    /\ store' = [store EXCEPT ![Session] = NoDoc]
    /\ UNCHANGED <<runs, page, upload, uploadedDocument, docOps, docView, form, artifacts,
                   topicInput>>

\* the handler of the reply disables generateWithDocBtn and, when the user
\* confirms, reloads the page
clearUploadedDocumentReply(reload) ==
    /\ clears.served > 0
    /\ clears' = IF reload
                 THEN [sent |-> 0, served |-> 0,
                       orphaned |-> clears.orphaned + clears.sent]
                 ELSE [clears EXCEPT !.served = @ - 1]
    /\ IF reload
       THEN /\ runs' = [r \in RunIds |->
                          IF runs[r].pc \in {"done", "failed", "dropped"}
                          THEN runs[r]
                          ELSE [runs[r] EXCEPT !.pc = "aborted", !.card = "none"]]
            /\ currentDiscussion' = NoDiscussion
            /\ dom' = <<>>
            /\ btn' = InitialButtons
            /\ uploadedDocument' = FALSE
            /\ docView' = InitialDocView
            /\ loading' = FALSE
            /\ errorShown' = "none"
            /\ modal' = "none"
            /\ form' = InitialForm
            /\ discussionTopicHeader' = InitialHeader
            /\ artifacts' = [InitialArtifacts EXCEPT
                                !.reqs = [a \in 1..Len(artifacts.reqs) |->
                                            [artifacts.reqs[a] EXCEPT !.pc = "aborted"]]]
            /\ upload' = IF upload.pc = "uploading"
                         THEN [upload EXCEPT !.pc = "orphaned"]
                         ELSE [pc |-> "idle", doc |-> NoDoc]
       ELSE /\ btn' = [btn EXCEPT !.generateWithDocBtn = TRUE]
            /\ docView' = [docView EXCEPT !.name = NoDoc]
            /\ UNCHANGED <<runs, currentDiscussion, dom, loading, errorShown, modal,
                           upload, uploadedDocument, form, artifacts,
                           discussionTopicHeader>>
    /\ UNCHANGED <<store, docOps, topicInput>>

-----------------------------------------------------------------------------
(* Specifications *)

Init ==
    /\ runs = <<>>
    /\ currentDiscussion = NoDiscussion
    /\ dom = <<>>
    /\ btn = InitialButtons
    /\ loading = FALSE
    /\ errorShown = "none"
    /\ modal = "none"
    /\ store = [s \in Sessions |-> NoDoc]
    /\ upload = [pc |-> "idle", doc |-> NoDoc]
    /\ clears = [sent |-> 0, served |-> 0, orphaned |-> 0]
    /\ uploadedDocument = FALSE
    /\ docOps = 0
    /\ docView = InitialDocView
    /\ form = InitialForm
    /\ artifacts = InitialArtifacts
    /\ topicInput = PlainTopic
    /\ discussionTopicHeader = InitialHeader

\* one fresh run over every roster size and turn count the form accepts
NextFresh ==
    \/ \E n \in MinRoles..MaxRoles, t \in MinTurns..MaxNumTurns :
          Len(runs) = 0 /\ generateDiscussion(Roster(n), t)
    \/ \E r \in RunIds : ServeStep(r)
    \/ \E r \in RunIds : NetworkFailure(r)
    \/ \E r \in RunIds : generateNextTurnReply(r)
    \/ \E r \in RunIds : nextTurnTimer(r)

SpecFresh == Init /\ [][NextFresh]_vars

\* fresh runs and continuations, with every way a step can fail
NextSteps ==
    \/ \E n \in 1..MaxR, t \in 0..MaxT :
          Len(runs) < MaxRuns /\ generateDiscussion(Roster(n), t)
    \/ \E r \in RunIds : ServeStep(r)
    \/ \E r \in RunIds : NetworkFailure(r)
    \/ \E r \in RunIds : generateNextTurnReply(r)
    \/ \E r \in RunIds : nextTurnTimer(r)
    \/ showContinueDiscussionModal
    \/ dismissModal
    \/ \E a \in 0..MaxT, u \in BOOLEAN :
          Len(runs) < MaxRuns /\ handleContinueDiscussion(a, u)
    \/ \E r \in RunIds : fetchNextContinuationTurnReply(r)

SpecSteps == Init /\ [][NextSteps]_vars

\* grounded runs interleaved with uploads and clears of the session's document
NextDoc ==
    \/ \E t \in MinTurns..MaxT :
          Len(runs) = 0 /\ handleGenerateWithDocument(Roster(MinRoles), t)
    \/ \E r \in RunIds : ServeDocumentText(r)
    \/ \E r \in RunIds : handleGenerateWithDocumentReply(r)
    \/ \E r \in RunIds : generateDiscussionWithDocumentReply(r)
    \/ \E r \in RunIds : displayDocumentCard(r)
    \/ \E r \in RunIds : ServeStep(r)
    \/ \E r \in RunIds : generateNextTurnReply(r)
    \/ \E r \in RunIds : nextTurnTimer(r)
    \/ showContinueDiscussionModal
    \/ Len(runs) < MaxRuns /\ handleContinueDiscussion(MinTurns, TRUE)
    \/ \E r \in RunIds : fetchNextContinuationTurnReply(r)
    \/ showProvideGuidanceModal
    \/ \E i \in Instructions :
          Len(runs) < MaxRuns /\ handleProvideGuidance(i, MinTurns, TRUE)
    \/ \E r \in RunIds : ServeGuidance(r)
    \/ \E r \in RunIds : handleProvideGuidanceReply(r)
    \/ \E doc \in Docs : docOps < MaxDocOps /\ handleDocumentUpload(File(doc))
    \/ ServeUploadClear
    \/ ServeUpload
    \/ handleDocumentUploadReply
    \/ docOps < MaxDocOps /\ clearUploadedDocument
    \/ ServeClear
    \/ \E reload \in BOOLEAN : clearUploadedDocumentReply(reload)

SpecDoc == Init /\ [][NextDoc]_vars

\* a fresh run followed by guidance runs
NextGuidance ==
    \/ \E n \in MinRoles..MaxR, t \in MinTurns..MaxT :
          Len(runs) = 0 /\ generateDiscussion(Roster(n), t)
    \/ \E r \in RunIds : ServeStep(r)
    \/ \E r \in RunIds : generateNextTurnReply(r)
    \/ \E r \in RunIds : nextTurnTimer(r)
    \/ showProvideGuidanceModal
    \/ dismissModal
    \/ \E i \in Instructions \cup {""}, a \in 0..MaxT, u \in BOOLEAN :
          Len(runs) < MaxRuns /\ handleProvideGuidance(i, a, u)
    \/ \E r \in RunIds : ServeGuidance(r)
    \/ \E r \in RunIds : NetworkFailure(r)
    \/ \E r \in RunIds : guidanceTimeout(r)
    \/ \E r \in RunIds : guidanceLateReply(r)
    \/ \E r \in RunIds : handleProvideGuidanceReply(r)

SpecGuidance == Init /\ [][NextGuidance]_vars

\* a fresh run followed by continuations
NextCont ==
    \/ \E n \in MinRoles..MaxR, t \in MinTurns..MaxT :
          Len(runs) = 0 /\ generateDiscussion(Roster(n), t)
    \/ \E r \in RunIds : ServeStep(r)
    \/ \E r \in RunIds : generateNextTurnReply(r)
    \/ \E r \in RunIds : nextTurnTimer(r)
    \/ showContinueDiscussionModal
    \/ dismissModal
    \/ \E a \in MinTurns..MaxT :
          Len(runs) < MaxRuns /\ handleContinueDiscussion(a, FALSE)
    \/ \E r \in RunIds : fetchNextContinuationTurnReply(r)

SpecCont == Init /\ [][NextCont]_vars

\* the endpoint answers every request, and every reply handler and every
\* timer of the page runs
SpecContFair ==
    /\ SpecCont
    /\ \A r \in 1..MaxRuns :
          /\ WF_vars(r \in RunIds /\ ServeStep(r))
          /\ WF_vars(r \in RunIds /\ generateNextTurnReply(r))
          /\ WF_vars(r \in RunIds /\ nextTurnTimer(r))
          /\ WF_vars(r \in RunIds /\ fetchNextContinuationTurnReply(r))

\* the transcripts displayDiscussion can be given: one round of the roster, then
\* up to MaxLen utterances of roster roles and of the two pseudo-roles
DisplayedTranscripts ==
    LET roster == Roster(MinRoles)
        speakers == {roster[k] : k \in 1..Len(roster)} \cup {SystemRole, ConsultantRole}
        round == [k \in 1..Len(roster) |-> Utterance(roster[k], "text")]
    IN  UNION {{round \o [k \in 1..m |-> Utterance(tail[k], "text")] :
                  tail \in [1..m -> speakers]} : m \in 0..MaxLen}

\* the page after displayDiscussion has rendered a transcript
InitDisplayed ==
    /\ runs = <<>>
    /\ \E discussion \in DisplayedTranscripts :
          /\ currentDiscussion = [kind |-> "val", run |-> 0, val |-> discussion]
          /\ dom = displayContinuation(<<>>, discussion)
    /\ btn = enableDiscussionButtons(InitialButtons)
    /\ loading = FALSE
    /\ errorShown = "none"
    /\ modal = "none"
    /\ store = [s \in Sessions |-> NoDoc]
    /\ upload = [pc |-> "idle", doc |-> NoDoc]
    /\ clears = [sent |-> 0, served |-> 0, orphaned |-> 0]
    /\ uploadedDocument = FALSE
    /\ docOps = 0
    /\ docView = InitialDocView
    /\ form = InitialForm
    /\ artifacts = InitialArtifacts
    /\ topicInput = PlainTopic
    /\ discussionTopicHeader = headerOfFollowUp(PlainTopic, FALSE)

\* a continuation started from a displayed transcript
NextRoster ==
    \/ showContinueDiscussionModal
    \/ dismissModal
    \/ \E a \in MinTurns..MaxT :
          Len(runs) < MaxRuns /\ handleContinueDiscussion(a, FALSE)
    \/ \E r \in RunIds : ServeStep(r)
    \/ \E r \in RunIds : NetworkFailure(r)
    \/ \E r \in RunIds : fetchNextContinuationTurnReply(r)

SpecRoster == InitDisplayed /\ [][NextRoster]_vars

\* a fresh run of the smallest roster, then guidance runs and continuations
\* that follow one another
NextFollowUp ==
    \/ Len(runs) = 0 /\ generateDiscussion(Roster(MinRoles), MinTurns)
    \/ \E r \in RunIds : ServeStep(r)
    \/ \E r \in RunIds : generateNextTurnReply(r)
    \/ \E r \in RunIds : nextTurnTimer(r)
    \/ showContinueDiscussionModal
    \/ showProvideGuidanceModal
    \/ dismissModal
    \/ \E a \in MinTurns..MaxT :
          Len(runs) <= MaxRuns /\ handleContinueDiscussion(a, FALSE)
    \/ \E a \in MinTurns..MaxT :
          Len(runs) <= MaxRuns /\ handleProvideGuidance("instr", a, FALSE)
    \/ \E r \in RunIds : fetchNextContinuationTurnReply(r)
    \/ \E r \in RunIds : ServeGuidance(r)
    \/ \E r \in RunIds : handleProvideGuidanceReply(r)

SpecFollowUp == Init /\ [][NextFollowUp]_vars

\* what parseInt reads from a turn-count field whose range is lo..hi: the ends of
\* the range, the numbers next to them, a negative number, or no integer
TurnInputs(lo, hi) == {NaN, -1, lo - 1, lo, hi, hi + 1}

\* a fresh run, then guidance runs and continuations, with every kind of
\* turn-count input
NextForm ==
    \/ \E t \in TurnInputs(MinTurns, MaxNumTurns) :
          Len(runs) = 0 /\ generateDiscussion(Roster(MinRoles), t)
    \/ \E r \in RunIds : ServeStep(r)
    \/ \E r \in RunIds : generateNextTurnReply(r)
    \/ \E r \in RunIds : nextTurnTimer(r)
    \/ showContinueDiscussionModal
    \/ showProvideGuidanceModal
    \/ dismissModal
    \/ \E a \in TurnInputs(MinTurns, MaxAdditionalTurns) :
          Len(runs) < MaxRuns /\ handleContinueDiscussion(a, FALSE)
    \/ \E a \in TurnInputs(MinTurns, MaxAdditionalTurns) :
          Len(runs) < MaxRuns /\ handleProvideGuidance("instr", a, FALSE)
    \/ \E r \in RunIds : fetchNextContinuationTurnReply(r)
    \/ \E r \in RunIds : ServeGuidance(r)
    \/ \E r \in RunIds : handleProvideGuidanceReply(r)

SpecForm == Init /\ [][NextForm]_vars

\* the role inputs are changed, then the form is submitted and the run goes on
NextRoles ==
    \/ Len(runs) = 0 /\ addRole
    \/ \E k \in 1..MaxRoles : Len(runs) = 0 /\ removeRoleInput(k)
    \/ Len(runs) = 0 /\ loadExampleTopic
    \/ \E roles \in ImportedLists, c \in BOOLEAN : Len(runs) = 0 /\ importRoles(roles, c)
    \/ importRolesTimer
    \/ \E k \in 1..MaxRoles, text \in TypedTexts : Len(runs) = 0 /\ typeRole(k, text)
    \/ Len(runs) = 0 /\ handleFormSubmit(MinTurns)
    \/ \E r \in RunIds : ServeStep(r)
    \/ \E r \in RunIds : generateNextTurnReply(r)
    \/ \E r \in RunIds : nextTurnTimer(r)

SpecRoles == Init /\ [][NextRoles]_vars

\* a fresh run of the smallest roster, then summaries and action items with
\* every way they can fail
NextArtifacts ==
    \/ Len(runs) = 0 /\ generateDiscussion(Roster(MinRoles), MinTurns)
    \/ \E r \in RunIds : ServeStep(r)
    \/ \E r \in RunIds : generateNextTurnReply(r)
    \/ \E r \in RunIds : nextTurnTimer(r)
    \/ generateActionItems
    \/ summarizeDiscussion
    \/ \E a \in ArtifactIds : ServeArtifact(a)
    \/ \E a \in ArtifactIds : ArtifactNetworkFailure(a)
    \/ \E a \in ArtifactIds : artifactReply(a)
    \/ \E a \in ArtifactIds : artifactTimeout(a)
    \/ \E a \in ArtifactIds : artifactLateReply(a)

SpecArtifacts == Init /\ [][NextArtifacts]_vars

\* a fresh run of the smallest roster, the guidance runs and continuations that
\* follow it, and the summary and action items asked for in between
NextDerived ==
    \/ Len(runs) = 0 /\ generateDiscussion(Roster(MinRoles), MinTurns)
    \/ \E r \in RunIds : ServeStep(r)
    \/ \E r \in RunIds : generateNextTurnReply(r)
    \/ \E r \in RunIds : nextTurnTimer(r)
    \/ showContinueDiscussionModal
    \/ showProvideGuidanceModal
    \/ dismissModal
    \/ Len(runs) < MaxRuns /\ handleContinueDiscussion(MinTurns, FALSE)
    \/ Len(runs) < MaxRuns /\ handleProvideGuidance("instr", MinTurns, FALSE)
    \/ \E r \in RunIds : fetchNextContinuationTurnReply(r)
    \/ \E r \in RunIds : ServeGuidance(r)
    \/ \E r \in RunIds : handleProvideGuidanceReply(r)
    \/ generateActionItems
    \/ summarizeDiscussion
    \/ \E a \in ArtifactIds : ServeArtifact(a)
    \/ \E a \in ArtifactIds : artifactReply(a)

SpecDerived == Init /\ [][NextDerived]_vars

\* a fresh run of the smallest roster, then the requests that are raced against
\* a timer: guidance, summary and action items
NextRace ==
    \/ Len(runs) = 0 /\ generateDiscussion(Roster(MinRoles), MinTurns)
    \/ \E r \in RunIds : ServeStep(r)
    \/ \E r \in RunIds : generateNextTurnReply(r)
    \/ \E r \in RunIds : nextTurnTimer(r)
    \/ showProvideGuidanceModal
    \/ dismissModal
    \/ Len(runs) < MaxRuns /\ handleProvideGuidance("instr", MinTurns, FALSE)
    \/ \E r \in RunIds : ServeGuidance(r)
    \/ \E r \in RunIds : handleProvideGuidanceReply(r)
    \/ \E r \in RunIds : guidanceTimeout(r)
    \/ \E r \in RunIds : guidanceLateReply(r)
    \/ generateActionItems
    \/ summarizeDiscussion
    \/ \E a \in ArtifactIds : ServeArtifact(a)
    \/ \E a \in ArtifactIds : ArtifactNetworkFailure(a)
    \/ \E a \in ArtifactIds : artifactReply(a)
    \/ \E a \in ArtifactIds : artifactTimeout(a)
    \/ \E a \in ArtifactIds : artifactLateReply(a)

SpecRace == Init /\ [][NextRace]_vars

\* the files the user may have selected when the upload form is submitted
FileNames ==
    {<<"docA", "pdf">>, <<"docB", "PDF">>, <<"docB", "Xlsx">>, <<"docA", "exe">>,
     <<"docA", "pdf", "exe">>, <<"docA">>, <<"pdf">>}

UploadInputs ==
    {NoFile} \cup [name : FileNames, size : {1, MaxFileSize, MaxFileSize + 1}]

\* the document panel alone: uploads of every kind of file, clears, failures of
\* the network and reloads of the page
NextUpload ==
    \/ \E file \in UploadInputs : docOps < MaxDocOps /\ handleDocumentUpload(file)
    \/ ServeUploadClear
    \/ ServeUpload
    \/ handleDocumentUploadReply
    \/ docOps < MaxDocOps /\ clearUploadedDocument
    \/ ServeClear
    \/ DocumentNetworkFailure
    \/ \E reload \in BOOLEAN : clearUploadedDocumentReply(reload)

SpecUpload == Init /\ [][NextUpload]_vars

\* the document panel with files that pass the checks: uploads, clears,
\* rejections by the endpoint, failures of the network and reloads of the page
NextPanel ==
    \/ \E doc \in Docs : docOps < MaxDocOps /\ handleDocumentUpload(File(doc))
    \/ ServeUploadClear
    \/ ServeUpload
    \/ handleDocumentUploadReply
    \/ docOps < MaxDocOps /\ clearUploadedDocument
    \/ ServeClear
    \/ DocumentNetworkFailure
    \/ \E reload \in BOOLEAN : clearUploadedDocumentReply(reload)

SpecPanel == Init /\ [][NextPanel]_vars

\* one upload of a document, never cleared, with one plain or grounded run of
\* the smallest roster and summaries of it
NextDocButton ==
    \/ \E doc \in Docs : docOps < 1 /\ handleDocumentUpload(File(doc))
    \/ ServeUploadClear
    \/ ServeUpload
    \/ handleDocumentUploadReply
    \/ Len(runs) = 0 /\ generateDiscussion(Roster(MinRoles), MinTurns)
    \/ Len(runs) = 0 /\ handleGenerateWithDocument(Roster(MinRoles), MinTurns)
    \/ \E r \in RunIds : ServeDocumentText(r)
    \/ \E r \in RunIds : handleGenerateWithDocumentReply(r)
    \/ \E r \in RunIds : generateDiscussionWithDocumentReply(r)
    \/ \E r \in RunIds : displayDocumentCard(r)
    \/ \E r \in RunIds : ServeStep(r)
    \/ \E r \in RunIds : generateNextTurnReply(r)
    \/ \E r \in RunIds : nextTurnTimer(r)
    \/ summarizeDiscussion
    \/ \E a \in ArtifactIds : ServeArtifact(a)
    \/ \E a \in ArtifactIds : artifactReply(a)

SpecDocButton == Init /\ [][NextDocButton]_vars

\* the texts of the topic field at the submit: a plain text, a text that starts
\* with the header's prefix, a text that ends with the header's suffix
Topics == {PlainTopic, <<Prefix, "topic">>, <<"topic", Suffix>>}

\* the page after load, with a topic typed into the form
InitTopic ==
    /\ runs = <<>>
    /\ currentDiscussion = NoDiscussion
    /\ dom = <<>>
    /\ btn = InitialButtons
    /\ loading = FALSE
    /\ errorShown = "none"
    /\ modal = "none"
    /\ store = [s \in Sessions |-> NoDoc]
    /\ upload = [pc |-> "idle", doc |-> NoDoc]
    /\ clears = [sent |-> 0, served |-> 0, orphaned |-> 0]
    /\ uploadedDocument = FALSE
    /\ docOps = 0
    /\ docView = InitialDocView
    /\ form = InitialForm
    /\ artifacts = InitialArtifacts
    /\ topicInput \in Topics
    /\ discussionTopicHeader = InitialHeader

\* one plain or grounded run on a topic, then summaries, continuations and
\* guidance runs of it
NextTopic ==
    \/ \E doc \in Docs : docOps < 1 /\ Len(runs) = 0 /\ handleDocumentUpload(File(doc))
    \/ ServeUploadClear
    \/ ServeUpload
    \/ handleDocumentUploadReply
    \/ Len(runs) = 0 /\ generateDiscussion(Roster(MinRoles), MinTurns)
    \/ Len(runs) = 0 /\ handleGenerateWithDocument(Roster(MinRoles), MinTurns)
    \/ \E r \in RunIds : ServeDocumentText(r)
    \/ \E r \in RunIds : handleGenerateWithDocumentReply(r)
    \/ \E r \in RunIds : generateDiscussionWithDocumentReply(r)
    \/ \E r \in RunIds : displayDocumentCard(r)
    \/ \E r \in RunIds : ServeStep(r)
    \/ \E r \in RunIds : generateNextTurnReply(r)
    \/ \E r \in RunIds : nextTurnTimer(r)
    \/ Len(artifacts.reqs) = 0 /\ summarizeDiscussion
    \/ \E a \in ArtifactIds : ServeArtifact(a)
    \/ \E a \in ArtifactIds : artifactReply(a)
    \/ showContinueDiscussionModal
    \/ showProvideGuidanceModal
    \/ \E u \in BOOLEAN :
          Len(runs) < MaxRuns /\ handleContinueDiscussion(MinTurns, u)
    \/ \E u \in BOOLEAN :
          Len(runs) < MaxRuns /\ handleProvideGuidance("instr", MinTurns, u)
    \/ \E r \in RunIds : fetchNextContinuationTurnReply(r)
    \/ \E r \in RunIds : ServeGuidance(r)
    \/ \E r \in RunIds : handleProvideGuidanceReply(r)

SpecTopic == InitTopic /\ [][NextTopic]_vars

\* every user action and every reply, interleaved, for the smallest roster and
\* turn count
Next ==
    \/ \E n \in {MinRoles}, t \in {MinTurns} :
          Len(runs) < MaxRuns /\ generateDiscussion(Roster(n), t)
    \/ \E n \in {MinRoles}, t \in {MinTurns} :
          Len(runs) < MaxRuns /\ handleGenerateWithDocument(Roster(n), t)
    \/ \E r \in RunIds : ServeStep(r)
    \/ \E r \in RunIds : NetworkFailure(r)
    \/ \E r \in RunIds : generateNextTurnReply(r)
    \/ \E r \in RunIds : nextTurnTimer(r)
    \/ \E r \in RunIds : ServeDocumentText(r)
    \/ \E r \in RunIds : handleGenerateWithDocumentReply(r)
    \/ \E r \in RunIds : generateDiscussionWithDocumentReply(r)
    \/ \E r \in RunIds : displayDocumentCard(r)
    \/ showContinueDiscussionModal
    \/ dismissModal
    \/ \E a \in {MinTurns}, u \in BOOLEAN :
          Len(runs) < MaxRuns /\ handleContinueDiscussion(a, u)
    \/ \E r \in RunIds : fetchNextContinuationTurnReply(r)
    \/ showProvideGuidanceModal
    \/ \E i \in Instructions \cup {""}, a \in {MinTurns}, u \in BOOLEAN :
          Len(runs) < MaxRuns /\ handleProvideGuidance(i, a, u)
    \/ \E r \in RunIds : ServeGuidance(r)
    \/ \E r \in RunIds : guidanceTimeout(r)
    \/ \E r \in RunIds : guidanceLateReply(r)
    \/ \E r \in RunIds : handleProvideGuidanceReply(r)
    \/ \E doc \in Docs : docOps < MaxDocOps /\ handleDocumentUpload(File(doc))
    \/ ServeUploadClear
    \/ ServeUpload
    \/ handleDocumentUploadReply
    \/ docOps < MaxDocOps /\ clearUploadedDocument
    \/ ServeClear
    \/ \E reload \in BOOLEAN : clearUploadedDocumentReply(reload)

Spec == Init /\ [][Next]_vars

-----------------------------------------------------------------------------
(* Fresh runs *)

RoleAt(roles, k) == roles[((k - 1) % Len(roles)) + 1]

Steps(run) == Len(run.roles) * run.turns

\* the turn of the cursor that follows c in a roster of roleCount roles
FollowingTurn(c, roleCount) == IF c.idx + 1 < roleCount THEN c.turn ELSE c.turn + 1

FreshRuns == {r \in RunIds : runs[r].kind = "fresh"}

\* C1: in a fresh run the k-th utterance produced has role roster[k mod R]
\* (k counted from 0), the reply to every step before the (R x T)-th reports
\* isComplete false, and the reply to the (R x T)-th reports it true.
C1_RolesCycleUntilLastStep ==
    \A r \in FreshRuns :
        LET run == runs[r]
        IN  /\ \A k \in 1..Len(run.disc) : run.disc[k].role = RoleAt(run.roles, k)
            /\ Len(run.disc) <= Steps(run)
            /\ (run.pc = "resp" /\ run.resp.type = "ok")
                  => (run.resp.complete <=> Len(run.disc) + 1 = Steps(run))
            /\ run.pc = "done" => Len(run.disc) = Steps(run)

C1_Witness ==
    \E r \in FreshRuns :
        /\ runs[r].pc = "done"
        /\ Len(runs[r].roles) = 6
        /\ runs[r].turns = 10
        /\ Len(runs[r].disc) = 60
        /\ runs[r].disc[60].role = "r6"

\* C2: after a successful step with input cursor (t, i) the next request has
\* cursor (t, i+1) when i+1 < R and (t+1, 0) otherwise, so the k-th request
\* of a fresh run (k from 0) has cursor (k div R, k mod R) and a completed
\* run has sent R x T requests.
C2_CursorsInLexicographicOrder ==
    \A r \in FreshRuns :
        LET run == runs[r]
            R == Len(run.roles)
        IN  /\ \A k \in 1..Len(run.sent) :
                  run.sent[k] = Cursor((k - 1) \div R, (k - 1) % R)
            /\ run.pc = "wait" =>
                  run.cursor = IF run.req.cursor.idx + 1 < R
                               THEN Cursor(run.req.cursor.turn, run.req.cursor.idx + 1)
                               ELSE Cursor(run.req.cursor.turn + 1, 0)
            /\ run.pc = "done" => Len(run.sent) = Steps(run)

C2_Witness ==
    \E r \in FreshRuns :
        /\ runs[r].pc = "done"
        /\ runs[r].roles = <<"r1", "r2">>
        /\ runs[r].turns = 2
        /\ runs[r].sent = <<Cursor(0, 0), Cursor(0, 1), Cursor(1, 0), Cursor(1, 1)>>

-----------------------------------------------------------------------------
(* Failed steps *)

StepKinds == {"fresh", "doc", "cont"}

FailsNow(r) ==
    /\ runs[r].kind \in StepKinds
    /\ runs[r].pc = "resp"
    /\ runs[r].resp.type \in {"error", "net"}
    /\ runs'[r].pc # "resp"

\* C4: the handling of a failed step (gateway failure, error reply, network
\* failure) leaves the cursor at the cursor of the failed request and appends
\* nothing: the run's transcript, currentDiscussion and the page are unchanged.
C4_FailedStepAppendsNothing ==
    [][\A r \in RunIds :
          FailsNow(r) =>
              /\ runs'[r].disc = runs[r].req.disc
              /\ runs'[r].cursor = runs[r].req.cursor
              /\ dom' = dom
              /\ currentDiscussion' = currentDiscussion]_vars

C4_Witness ==
    \E r \in RunIds :
        /\ runs[r].kind = "fresh"
        /\ runs[r].pc = "failed"
        /\ runs[r].resp.err = "ModelTransient"
        /\ Len(runs[r].disc) = 3
        /\ runs[r].cursor = Cursor(1, 1)

IsPrefix(a, b) == Len(a) <= Len(b) /\ SubSeq(b, 1, Len(a)) = a

\* C5: a failed run sends nothing more and keeps what it produced: once a
\* step has failed the run's requests, cursor and transcript never change
\* again, and until the user starts a new run the bubbles on the page stay
\* where they are.
C5_NoRetryAfterFailure ==
    [][\A r \in RunIds :
          (runs[r].kind \in StepKinds /\ (FailsNow(r) \/ runs[r].pc = "failed")) =>
              /\ runs'[r].pc = "failed"
              /\ runs'[r].sent = runs[r].sent
              /\ runs'[r].req = runs[r].req
              /\ runs'[r].disc = runs[r].disc
              /\ (Len(runs') = Len(runs) =>
                     IsPrefix(SelectCls(dom, "discussion-bubble"),
                              SelectCls(dom', "discussion-bubble")))]_vars

C5_Witness ==
    \E r \in RunIds :
        /\ runs[r].kind = "fresh"
        /\ runs[r].pc = "failed"
        /\ runs[r].resp.type = "net"
        /\ Len(runs[r].disc) = 2
        /\ Len(runs[r].sent) = 3
        /\ SelectCls(dom, "discussion-bubble")
              = [k \in 1..2 |-> Bubble(runs[r].disc[k])]
        /\ ~btn.generateBtn

-----------------------------------------------------------------------------
(* Grounded steps *)

\* the endpoint answers the request of run r in this step
Served(r) ==
    /\ runs[r].pc = "req"
    /\ runs'[r].pc = "resp"
    /\ runs'[r].resp.type # "net"

\* C6: a grounded step (fresh, continuation or guidance) served while the
\* session's Document Store is empty is answered with DocumentUnavailable,
\* with no utterance and without a Model Gateway call; and a grounded step
\* that does produce an utterance was given the stored document, never none.
C6_GroundedStepNeedsDocument ==
    [][\A r \in RunIds :
          (Served(r) /\ runs[r].useDoc /\ runs'[r].resp.err # "InvalidInput") =>
              /\ store[Session] = NoDoc =>
                    /\ runs'[r].resp.type = "error"
                    /\ runs'[r].resp.err = "DocumentUnavailable"
                    /\ ~runs'[r].resp.gw
                    /\ runs'[r].resp.message = NoResp.message
                    /\ runs'[r].resp.discussion = <<>>
              /\ runs'[r].resp.type = "ok" =>
                    /\ runs'[r].resp.doc = store[Session]
                    /\ runs'[r].resp.doc # NoDoc]_vars

C6_Witness ==
    /\ Len(runs) >= 2
    /\ runs[1].kind = "doc"
    /\ runs[1].pc = "done"
    /\ \E r \in RunIds :
          /\ runs[r].kind = "cont"
          /\ runs[r].useDoc
          /\ runs[r].pc = "failed"
          /\ runs[r].resp.err = "DocumentUnavailable"
          /\ ~runs[r].resp.gw
          /\ runs[r].disc = runs[1].disc
    /\ store[Session] = NoDoc
    /\ errorShown = "DocumentUnavailable"

GroundedRuns == {r \in RunIds : runs[r].kind = "doc"}

\* the cursor of a run is where its transcript ends
InStep(run) ==
    LET R == Len(run.roles)
        k == Len(run.disc)
    IN  /\ \A j \in 1..k : run.disc[j].role = RoleAt(run.roles, j)
        /\ run.pc # "done" => run.cursor = Cursor(k \div R, k % R)
        /\ run.pc = "done" => k = Steps(run)

DocumentChanges == store' # store \/ upload' # upload \/ clears' # clears

\* C7: while uploads and clears interleave with a grounded fresh run, the
\* run's transcript only grows at its end and its cursor stays at the end of
\* the transcript; a document operation changes neither; a step served after
\* a clear is answered DocumentUnavailable without an utterance, a step
\* served after a replacement is given the new document; and the handling
\* of DocumentUnavailable ends the run with its utterances and the page's
\* bubbles as they were.
C7_ClearBetweenStepsKeepsTranscript ==
    [][\A r \in GroundedRuns :
          /\ InStep(runs'[r])
          /\ IsPrefix(runs[r].disc, runs'[r].disc)
          /\ DocumentChanges =>
                /\ runs'[r].disc = runs[r].disc
                /\ runs'[r].cursor = runs[r].cursor
          /\ (Served(r) /\ Len(runs[r].disc) > 0) =>
                IF store[Session] = NoDoc
                THEN /\ runs'[r].resp.err = "DocumentUnavailable"
                     /\ runs'[r].resp.message = NoResp.message
                ELSE runs'[r].resp.type = "ok" => runs'[r].resp.doc = store[Session]
          /\ (runs[r].pc = "resp" /\ runs[r].resp.err = "DocumentUnavailable"
                /\ runs'[r].pc = "failed") =>
                /\ runs'[r].disc = runs[r].req.disc
                /\ runs'[r].cursor = runs[r].req.cursor
                /\ dom' = dom
                /\ errorShown' = "DocumentUnavailable"]_vars

C7_Witness ==
    \E r \in GroundedRuns :
        /\ runs[r].pc = "failed"
        /\ runs[r].resp.err = "DocumentUnavailable"
        /\ runs[r].turns = 2
        /\ Len(runs[r].disc) = 3
        /\ runs[r].cursor = Cursor(1, 1)
        /\ Len(SelectCls(dom, "discussion-bubble")) = 3
        /\ store[Session] = NoDoc

-----------------------------------------------------------------------------
(* Guidance runs *)

GuidanceRuns == {r \in RunIds : runs[r].kind = "guid"}

SystemEntries(disc, from) ==
    {k \in (from + 1)..Len(disc) : disc[k].role = SystemRole}

\* C8: when the reply of a guidance run is handled, the transcript the client
\* adopts is the history it sent, then exactly one utterance {role: system,
\* content: instruction}, then exactly R x additionalTurns utterances whose
\* roles cycle through the roster in order; and when the page still shows the
\* history that was sent, it then shows that one system entry once, followed
\* by the new utterances.
C8_OneSystemEntryThenWindow ==
    [][\A r \in GuidanceRuns :
          (runs[r].pc = "resp" /\ runs'[r].pc = "done") =>
              LET run == runs[r]
                  prior == run.req.disc
                  n == Len(prior)
                  roster == rosterOf(prior)
                  window == Len(roster) * run.turns
                  adopted == currentDiscussion'.val
              IN  /\ currentDiscussion'.kind = "val"
                  /\ Len(adopted) = n + 1 + window
                  /\ SubSeq(adopted, 1, n) = prior
                  /\ adopted[n + 1] = Utterance(SystemRole, run.instruction)
                  /\ SystemEntries(adopted, n) = {n + 1}
                  /\ \A k \in 1..window : adopted[n + 1 + k].role = RoleAt(roster, k)
                  /\ Len(SelectCls(dom, "discussion-bubble")) = n =>
                        dom' = dom \o <<ContinuationMarker, SystemMessage(adopted[n + 1])>>
                                   \o [k \in 1..window |-> Bubble(adopted[n + 1 + k])]]_vars

C8_Witness ==
    \E r \in GuidanceRuns :
        /\ runs[r].pc = "done"
        /\ runs[r].turns = 2
        /\ Len(runs[r].req.disc) = 4
        /\ Len(runs[r].disc) = 9
        /\ runs[r].disc[5] = Utterance(SystemRole, "instr")
        /\ runs[r].disc[9].role = "r2"
        /\ Len(SelectCls(dom, "system-message")) = 1
        /\ currentDiscussion.val = runs[r].disc

-----------------------------------------------------------------------------
(* Continuation runs *)

ContinuationRuns == {r \in RunIds : runs[r].kind = "cont"}

\* the run has appended its whole window to the transcript it started from
AppendedWindow(run, prior) ==
    /\ Len(run.disc) = Len(prior) + Steps(run)
    /\ SubSeq(run.disc, 1, Len(prior)) = prior
    /\ \A k \in 1..Steps(run) : run.disc[Len(prior) + k].role = RoleAt(run.roles, k)

-----------------------------------------------------------------------------
(* Requests in flight *)

\* the runs whose step or guidance request is sent and not yet handled
InFlight ==
    {r \in RunIds : runs[r].kind \in StepKinds \cup {"guid"}
                    /\ runs[r].pc \in {"req", "resp"}}

\* C12: at any time at most one step request of the page's discussion is sent
\* and not yet handled.
C12_OneStepInFlight == Cardinality(InFlight) <= 1

-----------------------------------------------------------------------------
(* C13 *)

\* the request of run r that follows the one in flight now is sent in this step
NextRequestSent(r) ==
    /\ runs[r].pc \in {"wait", "resp"}
    /\ runs'[r].pc = "req"

\* C13: within one run the transcript sent with a step request is the transcript
\* sent with the step request before it, extended at its end by exactly the
\* utterance that step returned (and by nothing when that step returned none);
\* the run's transcript only ever grows at its end.
C13_TranscriptAppendOnly ==
    [][\A r \in RunIds :
          /\ runs[r].kind \in StepKinds
          /\ r <= Len(runs')
          => /\ IsPrefix(runs[r].disc, runs'[r].disc)
             /\ Len(runs'[r].disc) <= Len(runs[r].disc) + 1
             /\ NextRequestSent(r)
                => runs'[r].req.disc =
                     IF runs[r].resp.type = "ok"
                     THEN Append(runs[r].req.disc, runs[r].resp.message)
                     ELSE runs[r].req.disc]_vars

\* the third request of a fresh run is in flight, carrying the two utterances
\* returned so far
C13_Witness ==
    \E r \in FreshRuns :
        /\ runs[r].pc = "req"
        /\ Len(runs[r].sent) = 3
        /\ Len(runs[r].req.disc) = 2
        /\ runs[r].req.disc[1].role # runs[r].req.disc[2].role

-----------------------------------------------------------------------------
(* C14 *)

\* C14: every step request of a fresh run with cursor (t, i) and roster size R
\* carries exactly t*R + i utterances, and a fresh run that completed has
\* produced exactly numTurns * roleCount utterances.
C14_TranscriptCountMatchesCursor ==
    \A r \in FreshRuns :
        LET run == runs[r]
            R == Len(run.roles)
        IN  /\ run.pc \in {"req", "resp"}
               => Len(run.req.disc) = run.req.cursor.turn * R + run.req.cursor.idx
            /\ run.pc = "done" => Len(run.disc) = run.turns * R

\* a run of more than one turn completed, after a request in its second turn past
\* the first role
C14_Witness ==
    \E r \in FreshRuns :
        /\ runs[r].pc = "done"
        /\ runs[r].turns >= 2
        /\ Len(runs[r].disc) = runs[r].turns * Len(runs[r].roles)
        /\ \E k \in 1..Len(runs[r].sent) :
              runs[r].sent[k].turn >= 1 /\ runs[r].sent[k].idx >= 1

-----------------------------------------------------------------------------
(* C15 *)

\* C15: every step request of a run carries the ordered role list of the
\* request before it, hence of the run's first step request, and no step
\* changes the roster of a run.
C15_RosterSameAcrossSteps ==
    [][\A r \in RunIds :
          /\ runs[r].kind \in StepKinds
          /\ r <= Len(runs')
          => /\ runs'[r].roles = runs[r].roles
             /\ runs'[r].pc \in {"req", "resp"} /\ runs[r].sent # <<>>
                => runs'[r].req.roles = runs[r].req.roles]_vars

\* a later request of a run of three roles is in flight with the list the first
\* request carried
C15_Witness ==
    \E r \in RunIds :
        /\ runs[r].kind \in StepKinds
        /\ runs[r].pc = "req"
        /\ Len(runs[r].sent) >= 3
        /\ runs[r].req.roles = Roster(3)

-----------------------------------------------------------------------------
(* C16 *)

PseudoRoles == {SystemRole, ConsultantRole}

\* the roster roles of a transcript, in the order they first speak
RosterRolesOf(disc) ==
    SelectSeq(extractRoles(disc), LAMBDA x : x \notin PseudoRoles)

\* C16: the roster a continuation run derives from the transcript holds only
\* the discussion's roster roles, in roster order; no system or consultant
\* pseudo-role becomes a roster entry or counts towards the roster size.
C16_RosterExcludesPseudoRoles ==
    \A r \in ContinuationRuns :
        /\ \A k \in 1..Len(runs[r].roles) : runs[r].roles[k] \notin PseudoRoles
        /\ currentDiscussion.kind = "val"
           => runs[r].roles = RosterRolesOf(currentDiscussion.val)

-----------------------------------------------------------------------------
(* C17 *)

\* the transcript the page holds: the array of the run that wrote it last, or
\* the discussion adopted from a guidance reply
TranscriptSoFar ==
    CASE currentDiscussion.kind = "val" -> currentDiscussion.val
      [] currentDiscussion.kind = "ref" -> runs[currentDiscussion.run].disc
      [] OTHER -> <<>>

\* C17: the first request of a continuation or guidance run carries the full
\* transcript produced so far, every utterance in its original order, system
\* and consultant utterances included.
C17_FirstRequestCarriesFullTranscript ==
    [][Len(runs') = Len(runs) + 1
       /\ runs'[Len(runs')].kind \in {"cont", "guid"}
       => runs'[Len(runs')].req.disc = TranscriptSoFar]_vars

-----------------------------------------------------------------------------
(* C18 *)

\* C18: a fresh run asked for with fewer than 2 roles is refused with the
\* roster error at once: the step that shows the error starts no run, sends no
\* request and adds no utterance, and no fresh run ever has fewer than 2 roles.
C18_TooFewRolesSendsNothing ==
    [][/\ \A r \in 1..Len(runs') :
             runs'[r].kind \in {"fresh", "doc"} => Len(runs'[r].roles) >= MinRoles
       /\ errorShown' = "InvalidInput: roles" /\ errorShown # "InvalidInput: roles"
          => runs' = runs /\ dom' = dom /\ currentDiscussion' = currentDiscussion]_vars

\* a submit with one role was refused before anything was started
C18_Witness ==
    /\ errorShown = "InvalidInput: roles"
    /\ runs = <<>>
    /\ dom = <<>>

-----------------------------------------------------------------------------
(* C19 *)

\* C19: a fresh run is started only with 1 <= totalTurns <= 10 and a
\* continuation or guidance run only with 1 <= additionalTurns <= 5; every
\* other value of the turn-count field, one that is no integer included, is
\* refused and no request is sent.
C19_RunsStartWithinTurnBounds ==
    \A r \in RunIds :
        /\ runs[r].kind \in {"fresh", "doc"}
           => runs[r].turns \in MinTurns..MaxNumTurns
        /\ runs[r].kind \in {"cont", "guid"}
           => runs[r].turns \in MinTurns..MaxAdditionalTurns

-----------------------------------------------------------------------------
(* C20 *)

\* C20: whatever add-role, remove-role, load-example and import-roles actions
\* come before a submit, every run is started with between 2 and 6 roles, all
\* distinct.
C20_RunsStartWithDistinctRoles ==
    \A r \in FreshRuns :
        LET roles == runs[r].roles
        IN  /\ Len(roles) >= MinRoles
            /\ Len(roles) <= MaxRoles
            /\ \A i, j \in 1..Len(roles) : roles[i] = roles[j] => i = j

-----------------------------------------------------------------------------
(* C21 *)

\* the reply run r holds is a terminal one, not yet handled or already handled
TerminalReply(r) ==
    /\ runs[r].kind \in StepKinds
    /\ runs[r].pc \in {"resp", "done"}
    /\ runs[r].resp.type = "ok"
    /\ runs[r].resp.complete

\* C21: once a step reply with isComplete = true has arrived, the run sends no
\* further step request: handling the reply ends the run, and an ended run
\* keeps its last request and its list of requests sent.
C21_NoRequestAfterTerminalReply ==
    [][\A r \in RunIds :
          TerminalReply(r) /\ r <= Len(runs')
          => /\ runs'[r].pc = "done"
             /\ runs'[r].sent = runs[r].sent
             /\ runs'[r].req = runs[r].req]_vars

\* a run of several steps has ended on its terminal reply while a later run of
\* the page is under way
C21_Witness ==
    \E r \in FreshRuns :
        /\ runs[r].pc = "done"
        /\ runs[r].resp.complete
        /\ Len(runs[r].sent) = Steps(runs[r])
        /\ Len(runs[r].sent) >= 4
        /\ Len(runs) > r

-----------------------------------------------------------------------------
(* C22 *)

FailedStates == {"failed", "timedout", "late", "dropped", "aborted"}

\* request a of an artifact fails in this step: its reply is an error, the fetch
\* was rejected, or the timer fired first
ArtifactFails(a) ==
    /\ artifacts.reqs[a].pc \in {"req", "resp"}
    /\ artifacts'.reqs[a].pc \in {"failed", "timedout", "late"}

\* C22: a summary or action-item generation sends one request; when it fails,
\* by an error reply, a network failure or the timer, the error is shown to the
\* user, the card of that artifact is not displayed, and the request is never
\* sent again.
C22_ArtifactFailsOnceAndVisibly ==
    [][/\ Len(artifacts'.reqs) <= Len(artifacts.reqs) + 1
       /\ \A a \in ArtifactIds :
             a <= Len(artifacts'.reqs)
             => /\ artifacts'.reqs[a].data = artifacts.reqs[a].data
                /\ artifacts'.reqs[a].pc = "req" => artifacts.reqs[a].pc = "req"
                /\ artifacts.reqs[a].pc \in FailedStates
                   => artifacts'.reqs[a].pc \in FailedStates
                /\ ArtifactFails(a)
                   => /\ errorShown' \in GatewayErrors \cup {"NetworkError", "Timeout"}
                      /\ artifacts'.reqs[a].pc = "failed"
                         => errorShown' = artifacts.reqs[a].resp.err
                      /\ artifacts'.reqs[a].pc # "failed" => errorShown' = "Timeout"
                      /\ artifacts'.shown # artifacts.reqs[a].kind
                      /\ Len(artifacts'.reqs) = Len(artifacts.reqs)]_vars

\* one artifact request was ended by the timer and another by an error reply
C22_Witness ==
    \E a, b \in ArtifactIds :
        /\ artifacts.reqs[a].pc \in {"timedout", "late", "dropped"}
        /\ artifacts.reqs[b].pc = "failed"
        /\ artifacts.reqs[b].resp.type = "error"
        /\ artifacts.reqs[a].kind # artifacts.reqs[b].kind
        /\ artifacts.shown = "none"

-----------------------------------------------------------------------------
(* C23 *)

\* run r is still producing utterances: a request of it is sent and not yet
\* handled, or the timer of its next request is set
Producing(r) == runs[r].pc \in {"req", "resp", "wait"}

\* C23: a summary or action-item request is sent only when no run of the page
\* is still producing utterances and the run that produced the transcript has
\* reported completion.
C23_ArtifactsStartOnCompletedTranscript ==
    [][Len(artifacts'.reqs) > Len(artifacts.reqs)
       => /\ \A r \in RunIds : ~Producing(r)
          /\ Len(runs) > 0 /\ runs[Len(runs)].pc = "done"]_vars

-----------------------------------------------------------------------------
(* C24 *)

\* C24: the utterances a summary or action-item request carries are the
\* utterances of the transcript so far, as (role, content) pairs in their
\* original order, system and consultant utterances included.
C24_ArtifactCarriesFullTranscript ==
    [][Len(artifacts'.reqs) = Len(artifacts.reqs) + 1
       => artifacts'.reqs[Len(artifacts'.reqs)].data = TranscriptSoFar]_vars

-----------------------------------------------------------------------------
(* C25 *)

\* the transcript and everything the page shows are left as they are
DisplayUnchanged ==
    /\ currentDiscussion' = currentDiscussion
    /\ dom' = dom
    /\ btn' = btn
    /\ loading' = loading
    /\ errorShown' = errorShown
    /\ artifacts'.shown = artifacts.shown
    /\ artifacts'.summaryContent = artifacts.summaryContent
    /\ artifacts'.actionItemsContent = artifacts.actionItemsContent

\* in this step the timer of a request in state pc fires before its reply is
\* handled
TimerFirst(pc, pcNext) == pc \in {"req", "resp"} /\ pcNext \in {"timedout", "late"}

\* what a step may do to a raced request that goes from state pc to pcNext
OneOutcome(pc, pcNext) ==
    /\ TimerFirst(pc, pcNext)
          => /\ errorShown' = "Timeout"
             /\ currentDiscussion' = currentDiscussion
             /\ dom' = dom
    /\ (pc \in {"timedout", "late"} /\ pcNext # pc)
          => /\ pcNext \in {"late", "dropped"}
             /\ DisplayUnchanged
    /\ (pc = "resp" /\ pcNext \in {"done", "failed"})
          => (errorShown' = "Timeout" => errorShown = "Timeout")
    /\ pc \in {"done", "failed", "dropped"} => pcNext = pc

\* C25: of a guidance, summary or action-item request exactly one outcome is
\* handled. When the timer fires first, the Timeout error is shown and the
\* transcript is as before, and the reply that arrives later changes neither
\* the transcript nor anything displayed. When the reply is handled first, its
\* handling shows no Timeout error and the request has no outcome after it. The
\* Timeout error appears only in a step in which a request loses its race.
C25_OneOutcomePerRacedRequest ==
    [][/\ \A r \in GuidanceRuns : OneOutcome(runs[r].pc, runs'[r].pc)
       /\ \A a \in ArtifactIds : OneOutcome(artifacts.reqs[a].pc, artifacts'.reqs[a].pc)
       /\ (errorShown' = "Timeout" /\ errorShown # "Timeout")
             => \/ \E r \in GuidanceRuns : TimerFirst(runs[r].pc, runs'[r].pc)
                \/ \E a \in ArtifactIds :
                      TimerFirst(artifacts.reqs[a].pc, artifacts'.reqs[a].pc)]_vars

\* the timer of a guidance request fired first and its reply, a longer
\* transcript, arrived later and was dropped; of an artifact request the reply
\* was handled first
C25_Witness ==
    /\ \E r \in GuidanceRuns :
          /\ runs[r].pc = "dropped"
          /\ runs[r].resp.type = "ok"
          /\ Len(runs[r].resp.discussion) > Len(TranscriptSoFar)
          /\ TranscriptSoFar = runs[r].req.disc
    /\ errorShown = "Timeout"
    /\ \E a \in ArtifactIds :
          /\ artifacts.reqs[a].pc = "done"
          /\ artifacts.shown = artifacts.reqs[a].kind

-----------------------------------------------------------------------------
(* C26 *)

\* the reply to a request in state pc is an error of the gateway and it is
\* handled in this step
GatewayErrorHandled(pc, pcNext, resp) ==
    pc = "resp" /\ pcNext = "failed" /\ resp.type = "error" /\ resp.gw

-----------------------------------------------------------------------------
(* C29 *)

ValidationErrors == {"NoFile", "FileTooLarge", "UnsupportedType"}

\* a file is selected, it is no larger than 5 MB, and its name ends in a dot and
\* one of the four extensions
WithinLimits(file) ==
    /\ file # NoFile
    /\ file.size <= MaxFileSize
    /\ Len(file.name) >= 2
    /\ toLowerCase(file.name[Len(file.name)]) \in AllowedExtensions

\* the submit of this step sends the file
UploadAccepted == upload.pc = "idle" /\ upload'.pc = "clearing"

\* the submit of this step is refused with a message
UploadRefused ==
    /\ docView'.error \in ValidationErrors
    /\ docView' # docView
    /\ docView'.name = docView.name

\* C29: a submit of the upload form with no file, with a file larger than 5 MB
\* or with a file whose extension is not pdf, txt, docx or xlsx is refused
\* before any request is sent, and leaves the Document Store and the client's
\* uploaded-document flag as they were; a submit with any other file is accepted.
C29_OnlyFilesWithinLimitsAreSent ==
    [][/\ UploadAccepted => WithinLimits(docView'.file)
       /\ UploadRefused
             => /\ ~WithinLimits(docView'.file)
                /\ upload' = upload
                /\ clears' = clears
                /\ store' = store
                /\ uploadedDocument' = uploadedDocument]_vars

-----------------------------------------------------------------------------
(* C30 *)

\* no request of an upload or of a clear is sent and not yet handled
DocumentQuiet ==
    /\ upload.pc = "idle"
    /\ clears.sent = 0
    /\ clears.served = 0
    /\ clears.orphaned = 0

\* C30: whenever no upload or clear request is in flight, the client's record
\* agrees with the Document Store: sessionStorage holds 'uploadedDocument'
\* exactly when the store holds a document of the session, and the name the
\* page displays is that of the stored document, or the waiting text when there
\* is none.
C30_ClientRecordAgreesWithStore ==
    DocumentQuiet
        => /\ uploadedDocument <=> store[Session] # NoDoc
           /\ docView.name = store[Session]

-----------------------------------------------------------------------------
(* C31 *)

\* no run is producing utterances or waiting for the document, no artifact
\* request is unanswered, no modal is open and no request of the document
\* panel is pending
NothingInProgress ==
    /\ \A r \in RunIds : runs[r].pc \notin {"req", "resp", "wait", "verify"}
    /\ \A a \in ArtifactIds : artifacts.reqs[a].pc \notin {"req", "resp"}
    /\ ~loading
    /\ DocumentQuiet

\* C31: whenever nothing is in progress, generateWithDocBtn is enabled exactly
\* when a document has been uploaded and not cleared; it is still enabled after
\* a run has finished while the document remains uploaded.
C31_DocButtonFollowsDocument ==
    NothingInProgress => (~btn.generateWithDocBtn <=> uploadedDocument)

(* C32 *)
WellFormed(m) == m.role # "" /\ m.content # ""
AllWellFormed(disc) == \A k \in 1..Len(disc) : WellFormed(disc[k])
Shown(d) ==
    LET shown == SelectSeq(d, LAMBDA e : e.cls \in {"discussion-bubble", "system-message",
                                                    "consultant-message"})
    IN  [k \in 1..Len(shown) |->
           Utterance(CASE shown[k].cls = "system-message" -> SystemRole
                       [] shown[k].cls = "consultant-message" -> ConsultantRole
                       [] OTHER -> shown[k].role,
                     shown[k].content)]
RECURSIVE IsSubsequence(_, _)
IsSubsequence(a, b) ==
    IF a = <<>> THEN TRUE
    ELSE IF b = <<>> THEN FALSE
    ELSE IF Head(a) = Head(b) THEN IsSubsequence(Tail(a), Tail(b))
    ELSE IsSubsequence(a, Tail(b))
RosterEntries(disc) == SelectSeq(disc, LAMBDA m : m.role \notin {SystemRole, ConsultantRole})
GuidanceDisplayed(r) ==
    /\ handleProvideGuidanceReply(r)
    /\ runs[r].resp.type = "ok"
\* C33: when the reply of a guidance run is displayed, the page shows every
\* utterance of the returned transcript once and in transcript order: the
\* transcript is a subsequence of what is shown, the bubbles are exactly the
\* transcript's roster utterances, and as many elements are added as the
\* transcript has utterances beyond the ones sent.
C33_GuidanceTranscriptShownOnce ==
    [][\A r \in RunIds :
          GuidanceDisplayed(r) =>
             LET discussion == runs[r].resp.discussion
             IN  /\ IsSubsequence(discussion, Shown(dom'))
                 /\ RosterEntries(Shown(dom')) = RosterEntries(discussion)
                 /\ Len(Shown(dom')) - Len(Shown(dom))
                       = Len(discussion) - Len(runs[r].req.disc)]_vars

GeneratedTopic == runs[1].topic
FollowUpSent ==
    /\ Len(runs') > Len(runs)
    /\ runs'[Len(runs')].kind \in {"cont", "guid"}
SummarySent ==
    /\ Len(artifacts'.reqs) > Len(artifacts.reqs)
    /\ artifacts'.reqs[Len(artifacts'.reqs)].kind = "summary"
\* C35: the topic a continuation, guidance or summary request carries, read
\* back from the header, is the topic the discussion was generated with, for
\* plain and for grounded discussions.
C35_TopicReadBackFromHeader ==
    [][/\ FollowUpSent => runs'[Len(runs')].topic = GeneratedTopic
       /\ SummarySent => artifacts'.reqs[Len(artifacts'.reqs)].topic = GeneratedTopic]_vars

(* C36 *)
\* C36: after importRoles has reported the import of the N roles of the
\* preview, the role inputs hold the N roles in file order, and with
\* clearExistingRoles unchecked they hold the roles they held before, followed
\* by the imported ones.
C36_ImportKeepsAndAdds ==
    [][\A roles \in ImportedLists, clearExisting \in BOOLEAN :
          importRoles(roles, clearExisting) =>
             /\ IsSubsequence(roles, form'.inputs)
             /\ ~clearExisting => form'.inputs = form.inputs \o roles]_vars
====
